---- MODULE Spec2Model ----
(***************************************************************************)
(* Match-analysis front end: the CSV-to-statistics pipeline of the         *)
(* MatchAnalytics and Dashboard screens and the fetch effect of the        *)
(* MatchAnalytics screen.                                                  *)
(*                                                                         *)
(* Conventions.                                                            *)
(*  - A JavaScript string is a sequence of one-character strings.          *)
(*  - Array indices are 0-based as in the source; At(a, k) reads a[k].     *)
(*  - undefined, NaN and null are the values Undefined, NaN and Null.      *)
(*  - A number is an integer count of thousandths (Scale), so "7.5" is     *)
(*    7500; a quotient is kept exact as a record [num, den].               *)
(*  - csvText.trim().split('\n') and line.split(',') are taken as done:    *)
(*    a CSV text is its header cells and its data rows, each row a         *)
(*    sequence of fields.                                                  *)
(***************************************************************************)
EXTENDS Integers, Sequences, FiniteSets, TLC

VARIABLES
    \* ---- one call of parseCSVData (either screen) ----
    screen,        \* which parseCSVData runs: "MatchAnalytics" or "Dashboard"
    response,      \* outcome of fetch(csvUrl): [kind |-> "throw"] or [kind |-> "response", status]
    headers,       \* lines[0].split(',')
    linesLength,   \* lines.length (header line included)
    alphabet,      \* the field strings the data rows of this text are made of
    i,             \* loop variable of the row loop
    values,        \* lines[i].split(',') of the row last read
    pc,            \* "fetch", "rows", "done"
    ma,            \* locals of MatchAnalytics.parseCSVData
    db,            \* locals of the Dashboard parseCSVData
    ret,           \* the value parseCSVData resolved with, Null until then
    \* ---- column resolution on its own ----
    col,           \* the requested logical column name
    resolved,      \* headers.findIndex(...) for col
    \* ---- MatchAnalytics screen ----
    matchId,       \* useParams().matchId
    token,         \* useAuth().token
    match,         \* useState: MatchResponse | null
    matchData,     \* useState: MatchData | null
    loading,       \* useState(true)
    error,         \* useState("")
    csvBallData,   \* useState<CSVBallData>
    ballVelocityData, \* useState([...mock series...])
    runs,          \* the runs of the fetchMatchData effect started so far
    server,        \* what the backend answers for each match id
    \* ---- one heatmap density computation ----
    variant,       \* "player", "ball-movement" or "ball-hits"
    points,        \* the entity's positions: positionData or hitPositions
    density,       \* the points with their raw counts (before normalization)
    heatmap,       \* the points with their final intensities
    hpc,            \* "todo", "done"
    \* ---- AuthProvider and ApiClient ----
    now, \* Date.now(), in milliseconds
    auth, \* useState of AuthProvider: [user, token, loading]
    localStorage, \* the keys padel_user and padel_token
    timeouts, \* the pending setTimeout callbacks: [tokenValue, at]
    intervalAt, \* when the setInterval of the periodic check fires next
    onTokenExpired, \* ApiClient.onTokenExpired: Null or the registered callback
    inflight, \* the ApiClient.request calls awaiting fetch
    settled, \* the ApiClient.request call that ended last, Null before
    apc, \* "mount" before the first effect of AuthProvider, then "ready"
    \* ---- VideoUpload ----
    vu, \* useState of VideoUpload and its useAuth().token
    canvasRect, \* canvas.getBoundingClientRect()
    uploads, \* the calls of handleKeypointFinish that passed its guard
    location, \* the route: "/upload" or "/dashboard"
    \* ---- MatchAnalytics.generatePDFReport ----
    activeTab, \* useState("overview")
    isGeneratingPDF, \* useState(false)
    report, \* the call of generatePDFReport: its position and locals, Null before
    \* ---- Dashboard: recent matches and the CSV of the latest one ----
    dash, \* useState of the Dashboard and its useAuth().token
    lastFetchedCsvUrl, \* useRef(null): Null or [current |-> url]
    historyCalls, \* the getMatchHistory calls awaited, and those made so far
    csvFetches, \* the csvUrl of each parseCSVData call awaited
    dpc \* "mount" before the first effects of the Dashboard, then "ready"

parseVars == <<screen, response, headers, linesLength, alphabet, i, values, pc, ma, db, ret>>
resolveVars == <<col, resolved>>
screenVars == <<matchId, token, match, matchData, loading, error, csvBallData,
                ballVelocityData, runs, server>>
heatVars == <<variant, points, density, heatmap, hpc>>
authVars == <<now, auth, localStorage, timeouts, intervalAt, onTokenExpired, inflight, settled, apc>>
uploadVars == <<vu, canvasRect, uploads, location>>
reportVars == <<activeTab, isGeneratingPDF, report>>
dashVars == <<dash, lastFetchedCsvUrl, historyCalls, csvFetches, dpc>>
vars == <<parseVars, resolveVars, screenVars, heatVars, authVars, uploadVars, reportVars, dashVars>>

\* undefined where a string is expected: no string, since a string is a
\* sequence of one-character strings
Undefined == <<"undefined">>
\* null where an object is expected: no record of the program has this field
Null == [null |-> TRUE]

\* Thousandths per unit: 1.0 is Scale.
Scale == 10 * 10 * 10
\* NaN where a number is expected: an integer no field of the domain parses to
NaN == 0 - Scale * Scale * Scale

Min(S) == CHOOSE x \in S : \A y \in S : x <= y
Max(S) == CHOOSE x \in S : \A y \in S : x >= y

\* a[k] of a JavaScript array, undefined outside 0..length-1
At(a, k) == IF k \in 0 .. (Len(a) - 1) THEN a[k + 1] ELSE Undefined

(***************************************************************************)
(* Strings                                                                 *)
(***************************************************************************)
WhiteSpace == {" ", "\t", "\r"}
UpperChars == <<"A","B","C","D","E","F","G","H","I","J","K","L","M",
                "N","O","P","Q","R","S","T","U","V","W","X","Y","Z">>
LowerChars == <<"a","b","c","d","e","f","g","h","i","j","k","l","m",
                "n","o","p","q","r","s","t","u","v","w","x","y","z">>
Digits == <<"0","1","2","3","4","5","6","7","8","9">>

toLowerCaseChar(c) ==
    IF \E k \in 1..Len(UpperChars) : UpperChars[k] = c
    THEN LowerChars[CHOOSE k \in 1..Len(UpperChars) : UpperChars[k] = c]
    ELSE c

\* String.prototype.toLowerCase
toLowerCase(s) == [k \in 1..Len(s) |-> toLowerCaseChar(s[k])]

RECURSIVE trimStart(_)
trimStart(s) == IF s # <<>> /\ Head(s) \in WhiteSpace THEN trimStart(Tail(s)) ELSE s

RECURSIVE trimEnd(_)
trimEnd(s) ==
    IF s # <<>> /\ s[Len(s)] \in WhiteSpace THEN trimEnd(SubSeq(s, 1, Len(s) - 1)) ELSE s

\* String.prototype.trim
trim(s) == trimEnd(trimStart(s))

\* The column names the two parsers ask for, as written in the source.
S_player == <<"p","l","a","y","e","r">>
S_ball == <<"b","a","l","l">>
S_distance == <<"_","d","i","s","t","a","n","c","e">>
S_Vnorm == <<"_","V","n","o","r","m">>
S_vnorm == <<"_","v","n","o","r","m">>
S_anorm == <<"_","a","n","o","r","m">>
S_bounce == <<"_","b","o","u","n","c","e">>
S_hit == <<"_","h","i","t">>
S_x == <<"_","x">>
S_y == <<"_","y">>
S_time == <<"t","i","m","e">>

playerDistanceColumns == [k \in 1..4 |-> S_player \o <<Digits[k + 1]>> \o S_distance]
playerVelocityColumns == [k \in 1..4 |-> S_player \o <<Digits[k + 1]>> \o S_Vnorm]
playerXColumns == [k \in 1..4 |-> S_player \o <<Digits[k + 1]>> \o S_x]
playerYColumns == [k \in 1..4 |-> S_player \o <<Digits[k + 1]>> \o S_y]
player_ball_hit == S_player \o S_ball \o S_hit
ball_distance == S_ball \o S_distance
ball_vnorm == S_ball \o S_vnorm
ball_anorm == S_ball \o S_anorm
ball_bounce == S_ball \o S_bounce
ball_x == S_ball \o S_x
ball_y == S_ball \o S_y
ball_hit == S_ball \o S_hit

(***************************************************************************)
(* Column resolution: headers.findIndex(header =>                          *)
(*     header.trim().toLowerCase() === name)                               *)
(***************************************************************************)
RECURSIVE findIndexFrom(_, _, _)
findIndexFrom(hs, name, k) ==
    IF k >= Len(hs) THEN -1
    ELSE IF toLowerCase(trim(hs[k + 1])) = name THEN k
    ELSE findIndexFrom(hs, name, k + 1)

findIndexLastMatch(hs, name) ==
    LET hits == {k \in 0 .. (Len(hs) - 1) : toLowerCase(trim(hs[k + 1])) = name}
    IN IF hits = {} THEN -1 ELSE Max(hits)

findIndex(hs, name) == findIndexFrom(hs, name, 0)

(***************************************************************************)
(* Numbers: parseFloat, parseInt, toFixed(2), toString, padStart           *)
(***************************************************************************)
IsDigit(c) == \E d \in 1..Len(Digits) : Digits[d] = c
DigitVal(c) == (CHOOSE d \in 1..Len(Digits) : Digits[d] = c) - 1

\* the longest prefix of s made of decimal digits
RECURSIVE DigitPrefix(_)
DigitPrefix(s) ==
    IF s # <<>> /\ IsDigit(Head(s)) THEN <<Head(s)>> \o DigitPrefix(Tail(s)) ELSE <<>>

RECURSIVE IntOf(_)
IntOf(ds) == IF ds = <<>> THEN 0 ELSE 10 * IntOf(SubSeq(ds, 1, Len(ds) - 1)) + DigitVal(ds[Len(ds)])

\* the fraction digits as thousandths (the domain holds at most three of them)
FracOf(ds) ==
    (IF Len(ds) >= 1 THEN 100 * DigitVal(ds[1]) ELSE 0)
    + (IF Len(ds) >= 2 THEN 10 * DigitVal(ds[2]) ELSE 0)
    + (IF Len(ds) >= 3 THEN DigitVal(ds[3]) ELSE 0)

\* parseFloat(f): leading white space skipped, an optional sign, the longest
\* decimal prefix; NaN when there is no digit. f may be undefined.
parseFloat(f) ==
    IF f = Undefined THEN NaN
    ELSE LET s == trimStart(f)
             signed == s # <<>> /\ Head(s) \in {"-", "+"}
             neg == s # <<>> /\ Head(s) = "-"
             body == IF signed THEN Tail(s) ELSE s
             ip == DigitPrefix(body)
             rest == SubSeq(body, Len(ip) + 1, Len(body))
             fp == IF rest # <<>> /\ Head(rest) = "." THEN DigitPrefix(Tail(rest)) ELSE <<>>
             abs == IntOf(ip) * Scale + FracOf(fp)
         IN IF ip = <<>> /\ fp = <<>> THEN NaN
            ELSE IF neg THEN 0 - abs ELSE abs

\* parseInt(f): leading white space skipped, an optional sign, the longest
\* prefix of digits; NaN when there is none. The result is a plain integer.
parseInt(f) ==
    IF f = Undefined THEN NaN
    ELSE LET s == trimStart(f)
             signed == s # <<>> /\ Head(s) \in {"-", "+"}
             neg == s # <<>> /\ Head(s) = "-"
             body == IF signed THEN Tail(s) ELSE s
             ip == DigitPrefix(body)
         IN IF ip = <<>> THEN NaN
            ELSE IF neg THEN 0 - IntOf(ip) ELSE IntOf(ip)

isNaN(v) == v = NaN

\* the truth value of values[k]: undefined and "" are falsy
Truthy(f) == f # Undefined /\ f # <<>>

\* parseFloat(v.toFixed(2)): v rounded to hundredths, ties away from zero
toFixed2(v) ==
    IF v >= 0 THEN ((v + 5) \div 10) * 10 ELSE 0 - (((0 - v) + 5) \div 10) * 10

\* Number.prototype.toString of a natural number
RECURSIVE toString(_)
toString(n) ==
    IF n < 10 THEN <<Digits[n + 1]>> ELSE toString(n \div 10) \o <<Digits[(n % 10) + 1]>>

\* s.padStart(2, '0')
padStart2(s) == IF Len(s) >= 2 THEN s ELSE IF Len(s) = 1 THEN <<"0">> \o s ELSE <<"0", "0">>

timeStringOfRow(row) ==
    LET timeInSeconds == row \div 30
        minutes == timeInSeconds \div 60
        seconds == timeInSeconds % 60
    IN toString(minutes) \o <<":">> \o padStart2(toString(seconds))

\* the time label of row i: `${minutes}:${seconds.toString().padStart(2, '0')}`
timeString(row) ==
    LET timeInSeconds == (row - 1) \div 30
        minutes == timeInSeconds \div 60
        seconds == timeInSeconds % 60
    IN toString(minutes) \o <<":">> \o padStart2(toString(seconds))

\* reduce((sum, v) => sum + v, 0), the list split in halves to add it up
RECURSIVE Sum(_)
Sum(xs) ==
    IF xs = <<>> THEN 0
    ELSE IF Len(xs) = 1 THEN xs[1]
    ELSE Sum(SubSeq(xs, 1, Len(xs) \div 2)) + Sum(SubSeq(xs, (Len(xs) \div 2) + 1, Len(xs)))

MaxOf(xs) == Max({xs[k] : k \in 1..Len(xs)})

\* an exact quotient n / d
Quot(n, d) == [num |-> n, den |-> d]
Zero == Quot(0, 1)

\* array.filter(index => index !== -1)
filterFound(indices) == SelectSeq(indices, LAMBDA x : x # -1)

(***************************************************************************)
(* MatchAnalytics.parseCSVData: the columns, resolved once before the loop *)
(***************************************************************************)
Players == 0..3

playerIndices(hs, columns) == [k \in 1..4 |-> findIndex(hs, toLowerCase(columns[k]))]

MAColumns(hs) ==
    [distanceIndices |-> filterFound(playerIndices(hs, playerDistanceColumns)),
     velocityIndices |-> filterFound(playerIndices(hs, playerVelocityColumns)),
     playerXIndices |-> playerIndices(hs, playerXColumns),
     playerYIndices |-> playerIndices(hs, playerYColumns),
     ballHitColumnIndex |-> findIndex(hs, player_ball_hit),
     ballDistanceIndex |-> findIndex(hs, ball_distance),
     ballVelocityIndex |-> findIndex(hs, ball_vnorm),
     ballAccelerationIndex |-> findIndex(hs, ball_anorm),
     ballBounceIndex |-> findIndex(hs, ball_bounce),
     ballXIndex |-> findIndex(hs, ball_x),
     ballYIndex |-> findIndex(hs, ball_y),
     ballHitIndex |-> findIndex(hs, ball_hit)]

(***************************************************************************)
(* MatchAnalytics.parseCSVData: the row loop                               *)
(***************************************************************************)
pushParsedOrZero(list, field) ==
    LET v == parseFloat(field) IN IF ~isNaN(v) THEN Append(list, v) ELSE Append(list, 0)

\* const v = parseFloat(field); if (!isNaN(v)) list.push(v)
pushParsed(list, field) ==
    LET v == parseFloat(field) IN IF ~isNaN(v) THEN Append(list, v) ELSE list

\* if (index !== -1 && values[index]) { ...parseFloat, push unless NaN }
pushBallField(list, vals, index) ==
    IF index # -1 /\ Truthy(At(vals, index)) THEN pushParsed(list, At(vals, index)) ELSE list

\* indices.forEach((colIndex, playerIndex) => { if (playerIndex < 4) ...push })
pushPlayerFields(lists, vals, indices) ==
    [p \in Players |->
        IF p < Len(indices) THEN pushParsed(lists[p], At(vals, indices[p + 1])) ELSE lists[p]]

countPlayerHitOffByOne(counts, vals, index) ==
    LET field == At(vals, index)
    IN IF index # -1 /\ Truthy(field)
       THEN LET playerHit == parseInt(trim(field))
            IN IF ~isNaN(playerHit) /\ playerHit >= 0 /\ playerHit <= 3
               THEN [counts EXCEPT ![playerHit] = @ + 1]
               ELSE counts
       ELSE counts

\* the player_ball_hit tally of one row; index is ballHitColumnIndex
countPlayerHit(counts, vals, index) ==
    LET field == At(vals, index)
    IN IF index # -1 /\ Truthy(field)
       THEN LET playerHit == parseInt(trim(field))
            IN IF ~isNaN(playerHit) /\ playerHit >= 1 /\ playerHit <= 4
               THEN [counts EXCEPT ![playerHit - 1] = @ + 1]
               ELSE counts
       ELSE counts

\* the position (of a player, of the ball) in one row, pushed unless absent or NaN
pushPosition(list, vals, xIndex, yIndex) ==
    IF xIndex # -1 /\ yIndex # -1 /\ Truthy(At(vals, xIndex)) /\ Truthy(At(vals, yIndex))
    THEN LET x == parseFloat(At(vals, xIndex))
             y == parseFloat(At(vals, yIndex))
         IN IF ~isNaN(x) /\ ~isNaN(y) THEN Append(list, [x |-> x, y |-> y]) ELSE list
    ELSE list

ballSampledEveryRow(row) == TRUE

\* row i is a sample of the ball series: i % 10 === 0
ballSampled(row) == row % 10 = 0

\* the ball velocity/acceleration sample of row i, pushed when both parse
pushBallSample(series, row, vals, cols) ==
    IF ballSampled(row) /\ cols.ballVelocityIndex # -1 /\ cols.ballAccelerationIndex # -1
    THEN LET velocity == parseFloat(At(vals, cols.ballVelocityIndex))
             acceleration == parseFloat(At(vals, cols.ballAccelerationIndex))
         IN IF ~isNaN(velocity) /\ ~isNaN(acceleration)
            THEN Append(series, [time |-> timeString(row),
                                 velocity |-> toFixed2(velocity),
                                 acceleration |-> toFixed2(acceleration)])
            ELSE series
    ELSE series

pushBallHitPositionTruthy(list, vals, cols) ==
    LET xIndex == cols.ballXIndex
        yIndex == cols.ballYIndex
        hitIndex == cols.ballHitIndex
    IN IF xIndex # -1 /\ yIndex # -1 /\ Truthy(At(vals, xIndex)) /\ Truthy(At(vals, yIndex))
       THEN LET x == parseFloat(At(vals, xIndex))
                y == parseFloat(At(vals, yIndex))
            IN IF ~isNaN(x) /\ ~isNaN(y) /\ hitIndex # -1 /\ Truthy(At(vals, hitIndex))
                  /\ ~isNaN(parseFloat(At(vals, hitIndex)))
                  /\ parseFloat(At(vals, hitIndex)) # 0
               THEN Append(list, [x |-> x, y |-> y])
               ELSE list
       ELSE list

\* the ball hit location of one row: pushed when ball_hit parses to exactly 1
pushBallHitPosition(list, vals, cols) ==
    LET xIndex == cols.ballXIndex
        yIndex == cols.ballYIndex
        hitIndex == cols.ballHitIndex
    IN IF xIndex # -1 /\ yIndex # -1 /\ Truthy(At(vals, xIndex)) /\ Truthy(At(vals, yIndex))
       THEN LET x == parseFloat(At(vals, xIndex))
                y == parseFloat(At(vals, yIndex))
            IN IF ~isNaN(x) /\ ~isNaN(y) /\ hitIndex # -1 /\ Truthy(At(vals, hitIndex))
                  /\ parseFloat(At(vals, hitIndex)) = Scale
               THEN Append(list, [x |-> x, y |-> y])
               ELSE list
       ELSE list

\* the locals of parseCSVData before the first row
MALocals(hs) ==
    [cols |-> MAColumns(hs),
     playerDistances |-> [p \in Players |-> <<>>],
     playerVelocities |-> [p \in Players |-> <<>>],
     playerHitCounts |-> [p \in Players |-> 0],
     allPlayerPositions |-> [p \in Players |-> <<>>],
     ballDistances |-> <<>>,
     ballVelocities |-> <<>>,
     ballAccelerations |-> <<>>,
     ballBounces |-> <<>>,
     ballVelocityOverTime |-> <<>>,
     ballPositionData |-> <<>>,
     ballHitPositions |-> <<>>]

\* One data row. The source reads the rows in two loops over the same lines,
\* the second collecting only the ball positions and hit locations; the two
\* share no variable, so row i goes through both bodies here.
MARow(acc, row, vals) ==
    LET cols == acc.cols
    IN [cols |-> cols,
        playerDistances |-> pushPlayerFields(acc.playerDistances, vals, cols.distanceIndices),
        playerVelocities |-> pushPlayerFields(acc.playerVelocities, vals, cols.velocityIndices),
        playerHitCounts |-> countPlayerHit(acc.playerHitCounts, vals, cols.ballHitColumnIndex),
        allPlayerPositions |->
           [p \in Players |-> pushPosition(acc.allPlayerPositions[p], vals,
                                           cols.playerXIndices[p + 1], cols.playerYIndices[p + 1])],
        ballDistances |-> pushBallField(acc.ballDistances, vals, cols.ballDistanceIndex),
        ballVelocities |-> pushBallField(acc.ballVelocities, vals, cols.ballVelocityIndex),
        ballAccelerations |-> pushBallField(acc.ballAccelerations, vals, cols.ballAccelerationIndex),
        ballBounces |-> pushBallField(acc.ballBounces, vals, cols.ballBounceIndex),
        ballVelocityOverTime |-> pushBallSample(acc.ballVelocityOverTime, row, vals, cols),
        ballPositionData |-> pushPosition(acc.ballPositionData, vals, cols.ballXIndex, cols.ballYIndex),
        ballHitPositions |-> pushBallHitPosition(acc.ballHitPositions, vals, cols)]

(***************************************************************************)
(* MatchAnalytics.parseCSVData: statistics and return values               *)
(***************************************************************************)
\* list.length > 0 ? list.reduce((s, v) => s + v, 0) / list.length : 0
average(list) == IF Len(list) > 0 THEN Quot(Sum(list), Len(list)) ELSE Zero

\* list.length > 0 ? Math.max(...list) : 0
maximum(list) == IF Len(list) > 0 THEN MaxOf(list) ELSE 0

playerData(acc) ==
    [k \in 1..4 |->
        [totalDistance |-> Sum(acc.playerDistances[k - 1]),
         avgVelocity |-> average(acc.playerVelocities[k - 1]),
         maxVelocity |-> maximum(acc.playerVelocities[k - 1]),
         hitCount |-> acc.playerHitCounts[k - 1],
         positionData |-> acc.allPlayerPositions[k - 1]]]

ballDataCountingBounces(acc) ==
    [totalDistance |-> Sum(acc.ballDistances),
     avgVelocity |-> average(acc.ballVelocities),
     maxVelocity |-> maximum(acc.ballVelocities),
     avgAcceleration |-> average(acc.ballAccelerations),
     bounceCount |-> Len(SelectSeq(acc.ballBounces, LAMBDA b : b # 0)) * Scale,
     velocityOverTime |-> acc.ballVelocityOverTime,
     positionData |-> acc.ballPositionData,
     hitPositions |-> acc.ballHitPositions]

ballDataOf(acc) ==
    [totalDistance |-> Sum(acc.ballDistances),
     avgVelocity |-> average(acc.ballVelocities),
     maxVelocity |-> maximum(acc.ballVelocities),
     avgAcceleration |-> average(acc.ballAccelerations),
     bounceCount |-> Sum(acc.ballBounces),
     velocityOverTime |-> acc.ballVelocityOverTime,
     positionData |-> acc.ballPositionData,
     hitPositions |-> acc.ballHitPositions]

\* the ball statistics of the catch block, of useState and of fetchMatchData
EmptyBallData ==
    [totalDistance |-> 0, avgVelocity |-> Zero, maxVelocity |-> 0, avgAcceleration |-> Zero,
     bounceCount |-> 0, velocityOverTime |-> <<>>, positionData |-> <<>>, hitPositions |-> <<>>]

\* return { players: playerData, ball: ballData }
MAResult(acc) == [players |-> playerData(acc), ball |-> ballDataOf(acc)]

\* the catch block
MAFailure == [players |-> <<>>, ball |-> EmptyBallData]

(***************************************************************************)
(* Dashboard parseCSVData                                                  *)
(***************************************************************************)
playerNames == <<"Player 1", "Player 2", "Player 3", "Player 4">>

DBColumns(hs) ==
    [velocityIndices |-> filterFound(playerIndices(hs, playerVelocityColumns)),
     ballHitColumnIndex |-> findIndex(hs, player_ball_hit)]

\* parseFloat(field) || 0
parseFloatOrZero(field) ==
    LET v == parseFloat(field) IN IF isNaN(v) \/ v = 0 THEN 0 ELSE v

dashSampledOnTenth(row) == row % 10 = 0

\* for (let i = 1; i < lines.length; i += 10): the rows the sampling loop reads
dashSampled(row) == (row - 1) % 10 = 0

\* the entry the sampling loop builds for row i: { time, [playerNames[idx]]: value }
dashEntry(row, vals, indices) ==
    LET keys == {"time"} \cup {playerNames[idx] : idx \in 1..Len(indices)}
    IN [key \in keys |->
          IF key = "time" THEN timeString(row)
          ELSE parseFloatOrZero(
                  At(vals, indices[CHOOSE idx \in 1..Len(indices) : playerNames[idx] = key]))]

pushDashEntrySkipping(series, row, vals, indices) ==
    IF dashSampled(row)
       /\ \A idx \in 1..Len(indices) : ~isNaN(parseFloat(At(vals, indices[idx])))
    THEN Append(series, dashEntry(row, vals, indices))
    ELSE series

\* velocityOverTime.push(entry), for every row the sampling loop reads
pushDashEntry(series, row, vals, indices) ==
    IF dashSampled(row) THEN Append(series, dashEntry(row, vals, indices)) ELSE series

DBLocals(hs) ==
    [cols |-> DBColumns(hs),
     velocityOverTime |-> <<>>,
     playerHitCounts |-> [p \in Players |-> 0]]

\* One data row. The source reads the rows in two loops, the first over rows
\* 1, 11, 21, ... building velocityOverTime, the second over every row
\* counting hits; the two share no variable, so row i goes through the
\* first body when the first loop reads it, and through the second.
DBRow(acc, row, vals) ==
    [cols |-> acc.cols,
     velocityOverTime |-> pushDashEntry(acc.velocityOverTime, row, vals, acc.cols.velocityIndices),
     playerHitCounts |-> countPlayerHit(acc.playerHitCounts, vals, acc.cols.ballHitColumnIndex)]

\* return { velocityOverTime, playerHitsData, playerNames }
DBResult(acc) ==
    [velocityOverTime |-> acc.velocityOverTime,
     playerHitsData |-> [idx \in 1..4 |-> [name |-> playerNames[idx],
                                          hits |-> acc.playerHitCounts[idx - 1]]],
     playerNames |-> playerNames]

\* the catch block
DBFailure == [velocityOverTime |-> <<>>, playerHitsData |-> <<>>, playerNames |-> <<>>]

(***************************************************************************)
(* The CSV texts the parsers are run on                                    *)
(***************************************************************************)
\* lines.length of the longest short text and of the long texts
MaxShortLines == 3
MaxLongLines == 32

H_time == S_time
H_p1Vnorm == playerVelocityColumns[1]
H_p2Vnorm == playerVelocityColumns[2]
H_p2distance == playerDistanceColumns[2]
H_ballVnorm == S_ball \o S_Vnorm
H_ballAnorm == S_ball \o <<"_","A","n","o","r","m">>

BothScreens == {"MatchAnalytics", "Dashboard"}
AnyStatus == {200, 500}

\* A family of texts: the header cells, the fields each column may hold, the
\* screens that parse it and the statuses it is served with. A data row has a
\* field for every column, or lacks the last one.
ShortFamilies ==
    { \* the columns of the end-to-end example of the specification
      [headers |-> <<H_time, H_p1Vnorm, player_ball_hit>>,
       alphabet |-> << {<<"0">>}, {<<"5">>, <<"7",".","5">>}, {<<"1">>, <<"2">>, <<>>} >>,
       screens |-> BothScreens, statuses |-> {200}],
      \* the hit column alone, with every kind of field
      [headers |-> <<player_ball_hit>>,
       alphabet |-> << {<<"1">>, <<"2">>, <<" ","4"," ">>, <<"5">>, <<"0">>, <<>>, <<"x">>,
                        <<"3","x">>} >>,
       screens |-> BothScreens, statuses |-> {200}],
      \* player 1's columns are absent, player 2's are present
      [headers |-> <<H_p2Vnorm, H_p2distance>>,
       alphabet |-> << {<<"3">>, <<"x">>}, {<<"2">>, <<>>} >>,
       screens |-> BothScreens, statuses |-> {200}],
      \* every velocity column, each with a value of its own
      [headers |-> <<playerVelocityColumns[1], playerVelocityColumns[2],
                     playerVelocityColumns[3], playerVelocityColumns[4]>>,
       alphabet |-> << {<<"1">>}, {<<"2">>}, {<<"3">>}, {<<"4">>, <<"x">>} >>,
       screens |-> BothScreens, statuses |-> {200}],
      \* padded and lower-cased header cells, the same column twice
      [headers |-> << <<" ">> \o H_p1Vnorm \o <<" ">>, toLowerCase(H_p1Vnorm) >>,
       alphabet |-> << {<<"1">>, <<"x">>}, {<<"2">>} >>,
       screens |-> BothScreens, statuses |-> {200}],
      \* the ball columns
      [headers |-> <<ball_distance, ball_bounce, ball_x, ball_y, ball_hit>>,
       alphabet |-> << {<<"2">>}, {<<"0">>, <<"1">>, <<"2">>}, {<<"1">>},
                       {<<"1">>, <<"x">>}, {<<"1">>, <<"0">>, <<"2">>, <<"x">>} >>,
       screens |-> {"MatchAnalytics"}, statuses |-> AnyStatus],
      \* the ball's velocity, acceleration and distance, parseable or not
      [headers |-> <<H_ballVnorm, H_ballAnorm, ball_distance>>,
       alphabet |-> << {<<"4">>, <<"x">>}, {<<>>, <<"6">>}, {<<"x">>, <<"2",".","5">>} >>,
       screens |-> {"MatchAnalytics"}, statuses |-> {200}],
      \* the ball's position without a ball_hit column
      [headers |-> <<ball_x, ball_y>>,
       alphabet |-> << {<<"1">>, <<"x">>}, {<<"2">>} >>,
       screens |-> {"MatchAnalytics"}, statuses |-> {200}],
      \* a text that is no CSV of this schema, such as an error page
      [headers |-> << <<"<","h","t","m","l",">">> >>,
       alphabet |-> << {<<"4","0","4">>, <<>>} >>,
       screens |-> BothScreens, statuses |-> AnyStatus] }

LongFamilies ==
    { [headers |-> <<H_ballVnorm, H_ballAnorm>>,
       alphabet |-> << {<<"1",".","2","3","6">>}, {<<"1">>, <<"x">>} >>,
       screens |-> {"MatchAnalytics"}, statuses |-> {200}],
      [headers |-> <<H_ballAnorm, H_ballVnorm>>,
       alphabet |-> << {<<"2">>}, {<<"1">>, <<>>} >>,
       screens |-> {"MatchAnalytics"}, statuses |-> {200}],
      [headers |-> <<H_ballVnorm>>,
       alphabet |-> << {<<"1">>} >>,
       screens |-> {"MatchAnalytics"}, statuses |-> {200}],
      [headers |-> <<H_time, H_p1Vnorm>>,
       alphabet |-> << {<<"0">>}, {<<"5">>, <<"x">>} >>,
       screens |-> {"Dashboard"}, statuses |-> {200}] }

\* lines.length of the texts of more than a minute of frames
MaxMinuteLines == 1812

\* texts long enough for the time label to pass 0:59, every row alike but
\* for the presence of the last field, which no parser reads
MinuteFamilies ==
    { [headers |-> <<H_ballVnorm, H_ballAnorm, H_time>>,
       alphabet |-> << {<<"1">>}, {<<"1">>}, {<<"0">>} >>,
       screens |-> {"MatchAnalytics"}, statuses |-> {200}],
      [headers |-> <<H_p1Vnorm, H_time>>,
       alphabet |-> << {<<"5">>}, {<<"0">>} >>,
       screens |-> {"Dashboard"}, statuses |-> {200}] }

\* the rows over a per-column alphabet: complete, or lacking the last field
RowsOf(alph) ==
    LET full == {r \in [1..Len(alph) -> UNION {alph[k] : k \in 1..Len(alph)}] :
                    \A k \in 1..Len(alph) : r[k] \in alph[k]}
    IN full \cup {SubSeq(r, 1, Len(r) - 1) : r \in full}

(***************************************************************************)
(* One call of parseCSVData, a row at a time                               *)
(***************************************************************************)
ParseIdle ==
    /\ screen = "MatchAnalytics"
    /\ response = [kind |-> "throw", status |-> 0]
    /\ headers = <<>>
    /\ linesLength = 1
    /\ alphabet = <<>>
    /\ i = 0
    /\ values = <<>>
    /\ pc = "idle"
    /\ ma = Null
    /\ db = Null
    /\ ret = Null

ResolveIdle == col = <<>> /\ resolved = -1

AuthIdle ==
    /\ now = 0
    /\ auth = [user |-> Null, token |-> Null, loading |-> TRUE]
    /\ localStorage = [padel_user |-> Null, padel_token |-> Null]
    /\ timeouts = {}
    /\ intervalAt = 0
    /\ onTokenExpired = Null
    /\ inflight = {}
    /\ settled = Null
    /\ apc = "idle"

UploadIdle ==
    /\ vu = Null
    /\ canvasRect = Null
    /\ uploads = <<>>
    /\ location = ""

ReportIdle ==
    /\ activeTab = "overview"
    /\ isGeneratingPDF = FALSE
    /\ report = Null

DashIdle ==
    /\ dash = Null
    /\ lastFetchedCsvUrl = Null
    /\ historyCalls = [awaited |-> 0, made |-> 0]
    /\ csvFetches = <<>>
    /\ dpc = "idle"

HeatIdle ==
    /\ variant = "player"
    /\ points = <<>>
    /\ density = <<>>
    /\ heatmap = <<>>
    /\ hpc = "idle"

\* const response = await fetch(csvUrl); const csvText = await response.text();
\* the status is never read; the columns are resolved before the loop
FetchResolves ==
    /\ pc = "fetch"
    /\ response.kind = "response"
    /\ pc' = "rows"
    /\ i' = 1
    /\ ma' = IF screen = "MatchAnalytics" THEN MALocals(headers) ELSE ma
    /\ db' = IF screen = "Dashboard" THEN DBLocals(headers) ELSE db
    /\ UNCHANGED <<screen, response, headers, linesLength, alphabet, values, ret>>
    /\ UNCHANGED <<resolveVars, screenVars, heatVars, authVars, uploadVars, reportVars, dashVars>>

\* fetch or response.text() rejects: the catch block returns
FetchThrows ==
    /\ pc = "fetch"
    /\ response.kind = "throw"
    /\ pc' = "done"
    /\ ret' = IF screen = "MatchAnalytics" THEN MAFailure ELSE DBFailure
    /\ UNCHANGED <<screen, response, headers, linesLength, alphabet, i, values, ma, db>>
    /\ UNCHANGED <<resolveVars, screenVars, heatVars, authVars, uploadVars, reportVars, dashVars>>

\* for (let i = 1; i < lines.length; i++) { const values = lines[i].split(','); ... }
MAReadRow ==
    /\ pc = "rows"
    /\ screen = "MatchAnalytics"
    /\ i < linesLength
    /\ \E vals \in RowsOf(alphabet) :
          /\ values' = vals
          /\ ma' = MARow(ma, i, vals)
    /\ i' = i + 1
    /\ UNCHANGED <<screen, response, headers, linesLength, alphabet, pc, db, ret>>
    /\ UNCHANGED <<resolveVars, screenVars, heatVars, authVars, uploadVars, reportVars, dashVars>>

MAReturn ==
    /\ pc = "rows"
    /\ screen = "MatchAnalytics"
    /\ i >= linesLength
    /\ pc' = "done"
    /\ ret' = MAResult(ma)
    /\ UNCHANGED <<screen, response, headers, linesLength, alphabet, i, values, ma, db>>
    /\ UNCHANGED <<resolveVars, screenVars, heatVars, authVars, uploadVars, reportVars, dashVars>>

DBReadRow ==
    /\ pc = "rows"
    /\ screen = "Dashboard"
    /\ i < linesLength
    /\ \E vals \in RowsOf(alphabet) :
          /\ values' = vals
          /\ db' = DBRow(db, i, vals)
    /\ i' = i + 1
    /\ UNCHANGED <<screen, response, headers, linesLength, alphabet, pc, ma, ret>>
    /\ UNCHANGED <<resolveVars, screenVars, heatVars, authVars, uploadVars, reportVars, dashVars>>

DBReturn ==
    /\ pc = "rows"
    /\ screen = "Dashboard"
    /\ i >= linesLength
    /\ pc' = "done"
    /\ ret' = DBResult(db)
    /\ UNCHANGED <<screen, response, headers, linesLength, alphabet, i, values, ma, db>>
    /\ UNCHANGED <<resolveVars, screenVars, heatVars, authVars, uploadVars, reportVars, dashVars>>

ScreenIdle ==
    /\ matchId = ""
    /\ token = ""
    /\ match = Null
    /\ matchData = Null
    /\ loading = TRUE
    /\ error = ""
    /\ csvBallData = EmptyBallData
    /\ ballVelocityData = <<>>
    /\ runs = <<>>
    /\ server = <<>>

ParseInit ==
    /\ \/ \E fam \in ShortFamilies :
             /\ headers = fam.headers
             /\ alphabet = fam.alphabet
             /\ screen \in fam.screens
             /\ response \in {[kind |-> "throw", status |-> 0]}
                             \cup {[kind |-> "response", status |-> st] : st \in fam.statuses}
             /\ linesLength \in 1..MaxShortLines
       \/ \E fam \in LongFamilies :
             /\ headers = fam.headers
             /\ alphabet = fam.alphabet
             /\ screen \in fam.screens
             /\ response \in {[kind |-> "response", status |-> st] : st \in fam.statuses}
             /\ linesLength = MaxLongLines
       \/ \E fam \in MinuteFamilies :
             /\ headers = fam.headers
             /\ alphabet = fam.alphabet
             /\ screen \in fam.screens
             /\ response \in {[kind |-> "response", status |-> st] : st \in fam.statuses}
             /\ linesLength = MaxMinuteLines
    /\ i = 0
    /\ values = <<>>
    /\ pc = "fetch"
    /\ ma = Null
    /\ db = Null
    /\ ret = Null
    /\ ResolveIdle
    /\ ScreenIdle
    /\ HeatIdle
    /\ AuthIdle
    /\ UploadIdle
    /\ ReportIdle
    /\ DashIdle

ParseNext ==
    \/ FetchResolves
    \/ FetchThrows
    \/ MAReadRow
    \/ MAReturn
    \/ DBReadRow
    \/ DBReturn

SpecParse == ParseInit /\ [][ParseNext]_vars

(***************************************************************************)
(* Column resolution on its own: one findIndex over a header row           *)
(***************************************************************************)
\* the most cells of a header row
MaxCols == 3

HeaderCells ==
    { ball_vnorm,
      <<" ">> \o H_ballVnorm \o <<" ">>,
      <<"B","A","L","L","_","V","N","O","R","M","\r">>,
      ball_vnorm \o <<"2">>,
      <<"b","a","l","l","_"," ","v","n","o","r","m">>,
      <<" ">> \o <<"P","l","a","y","e","r","1","_","V","n","o","r","m">> \o <<" ">>,
      toLowerCase(H_p1Vnorm),
      S_time,
      <<>> }

RequestedNames == {ball_vnorm, toLowerCase(H_p1Vnorm), ball_anorm, player_ball_hit}

ResolveInit ==
    /\ headers \in UNION {[1..n -> HeaderCells] : n \in 1..MaxCols}
    /\ col = <<>>
    /\ resolved = -1
    /\ screen = "MatchAnalytics"
    /\ response = [kind |-> "throw", status |-> 0]
    /\ linesLength = 1
    /\ alphabet = <<>>
    /\ i = 0
    /\ values = <<>>
    /\ pc = "idle"
    /\ ma = Null
    /\ db = Null
    /\ ret = Null
    /\ ScreenIdle
    /\ HeatIdle
    /\ AuthIdle
    /\ UploadIdle
    /\ ReportIdle
    /\ DashIdle

\* headers.findIndex(header => header.trim().toLowerCase() === name)
Resolve(name) ==
    /\ col = <<>>
    /\ col' = name
    /\ resolved' = findIndex(headers, name)
    /\ UNCHANGED <<parseVars, screenVars, heatVars, authVars, uploadVars, reportVars, dashVars>>

ResolveNext == \E name \in RequestedNames : Resolve(name)

SpecResolve == ResolveInit /\ [][ResolveNext]_vars

(***************************************************************************)
(* What the claims mean by a column                                        *)
(***************************************************************************)
\* c is the letter d (lower case) in either case
SameLetter(c, d) == c = d \/ \E k \in 1..Len(UpperChars) : c = UpperChars[k] /\ d = LowerChars[k]

\* cell is name, in any case, between any white space
CellIs(cell, name) ==
    \E a \in 0..Len(cell) :
        /\ Len(cell) - a - Len(name) >= 0
        /\ \A j \in 1..a : cell[j] \in WhiteSpace
        /\ \A j \in (a + Len(name) + 1)..Len(cell) : cell[j] \in WhiteSpace
        /\ \A j \in 1..Len(name) : SameLetter(cell[a + j], name[j])

\* the 0-based index of the first cell that is name, -1 when there is none
ColumnOf(hs, name) ==
    LET hits == {k \in 1..Len(hs) : CellIs(hs[k], name)}
    IN IF hits = {} THEN -1 ELSE Min(hits) - 1

\* C9: the resolved index of a requested name is the smallest index whose
\* header cell, trimmed and lower-cased, equals the name, and -1 when no cell
\* does; a padded, mixed-case cell resolves like the plain name.
C9_ColumnResolution == col # <<>> => resolved = ColumnOf(headers, col)

\* a padded mixed-case cell is found at index 1, before a plain cell at index 2
C9_Witness ==
    /\ col = toLowerCase(H_p1Vnorm)
    /\ Len(headers) = 3
    /\ headers[1] = S_time
    /\ headers[2] = <<" ">> \o <<"P","l","a","y","e","r","1","_","V","n","o","r","m">> \o <<" ">>
    /\ headers[3] = toLowerCase(H_p1Vnorm)
    /\ resolved = 1

(***************************************************************************)
(* Heatmap density: players (fetchMatchData), ball movement and ball hits  *)
(***************************************************************************)
\* the points of one entity in a computation
MaxPoints == 3

\* Math.max() of no argument
NegInfinity == 0 - Scale * Scale

\* const densityRadius = 1.0 (players)
playerDensityRadius == 1 * Scale
\* const densityRadius = 1.5 (ball movement, ball hits)
ballDensityRadius == (3 * Scale) \div 2

withinRadiusStrictly(point, otherPoint, densityRadius) ==
    (point.x - otherPoint.x) * (point.x - otherPoint.x)
      + (point.y - otherPoint.y) * (point.y - otherPoint.y) < densityRadius * densityRadius

\* Math.sqrt(Math.pow(dx, 2) + Math.pow(dy, 2)) <= densityRadius, both sides
\* squared: the square root is increasing and exact at the radius
withinRadius(point, otherPoint, densityRadius) ==
    (point.x - otherPoint.x) * (point.x - otherPoint.x)
      + (point.y - otherPoint.y) * (point.y - otherPoint.y) <= densityRadius * densityRadius

nearbyPointsButItself(data, point, densityRadius) ==
    SelectSeq(data, LAMBDA otherPoint :
                 otherPoint # point /\ withinRadius(point, otherPoint, densityRadius))

\* data.filter(otherPoint => distance <= densityRadius)
nearbyPoints(data, point, densityRadius) ==
    SelectSeq(data, LAMBDA otherPoint : withinRadius(point, otherPoint, densityRadius))

\* data.map(point => ({ x, y, intensity: nearbyPoints.length }))
rawHeatmapData(data, densityRadius) ==
    [j \in 1..Len(data) |->
        [x |-> data[j].x, y |-> data[j].y,
         intensity |-> Len(nearbyPoints(data, data[j], densityRadius))]]

sumIntensity(data) == Sum([j \in 1..Len(data) |-> data[j].intensity])

\* Math.max(...data.map(d => d.intensity))
maxIntensity(data) ==
    IF data = <<>> THEN NegInfinity ELSE Max({data[j].intensity : j \in 1..Len(data)})

\* the player heatmap: normalized only if (maxIntensity > 0), a raw count
\* being the quotient count / 1
playerHeatmapData(positionData) ==
    IF Len(positionData) > 0
    THEN LET heatmapData == rawHeatmapData(positionData, playerDensityRadius)
             m == maxIntensity(heatmapData)
         IN [j \in 1..Len(heatmapData) |->
               [x |-> heatmapData[j].x, y |-> heatmapData[j].y,
                intensity |-> IF m > 0 THEN Quot(heatmapData[j].intensity, m)
                              ELSE Quot(heatmapData[j].intensity, 1)]]
    ELSE <<>>

\* normalizedData of the ball heatmaps: maxIntensity > 0 ? d.intensity / maxIntensity : 0
normalizedData(data) ==
    LET m == maxIntensity(data)
    IN [j \in 1..Len(data) |->
          [x |-> data[j].x, y |-> data[j].y,
           intensity |-> IF m > 0 THEN Quot(data[j].intensity, m) ELSE Zero]]

\* the coordinates of the points, in thousandths: distances of exactly 1.0
\* and exactly 1.5 between points, and of more
Coordinates == {0, 1 * Scale, (3 * Scale) \div 2}
FarCoordinates == {0, 2 * Scale}
CourtPoints == {[x |-> cx, y |-> cy] : cx \in Coordinates, cy \in FarCoordinates}

HeatInit ==
    /\ variant \in {"player", "ball-movement", "ball-hits"}
    /\ points \in UNION {[1..n -> CourtPoints] : n \in 0..MaxPoints}
    /\ density = <<>>
    /\ heatmap = <<>>
    /\ hpc = "todo"
    /\ ParseIdle
    /\ ResolveIdle
    /\ ScreenIdle
    /\ AuthIdle
    /\ UploadIdle
    /\ ReportIdle
    /\ DashIdle

\* the heatmapData of one player in fetchMatchData
PlayerHeatmap ==
    /\ hpc = "todo"
    /\ variant = "player"
    /\ density' = (IF Len(points) > 0 THEN rawHeatmapData(points, playerDensityRadius) ELSE <<>>)
    /\ heatmap' = playerHeatmapData(points)
    /\ hpc' = "done"
    /\ UNCHANGED <<variant, points>>
    /\ UNCHANGED <<parseVars, resolveVars, screenVars, authVars, uploadVars, reportVars, dashVars>>

\* the ball-movement heatmap over csvBallData.positionData
BallMovementHeatmap ==
    /\ hpc = "todo"
    /\ variant = "ball-movement"
    /\ density' = rawHeatmapData(points, ballDensityRadius)
    /\ heatmap' = normalizedData(rawHeatmapData(points, ballDensityRadius))
    /\ hpc' = "done"
    /\ UNCHANGED <<variant, points>>
    /\ UNCHANGED <<parseVars, resolveVars, screenVars, authVars, uploadVars, reportVars, dashVars>>

\* the ball-hits heatmap over csvBallData.hitPositions
BallHitsHeatmap ==
    /\ hpc = "todo"
    /\ variant = "ball-hits"
    /\ density' = rawHeatmapData(points, ballDensityRadius)
    /\ heatmap' = normalizedData(rawHeatmapData(points, ballDensityRadius))
    /\ hpc' = "done"
    /\ UNCHANGED <<variant, points>>
    /\ UNCHANGED <<parseVars, resolveVars, screenVars, authVars, uploadVars, reportVars, dashVars>>

HeatNext == PlayerHeatmap \/ BallMovementHeatmap \/ BallHitsHeatmap

SpecHeatmap == HeatInit /\ [][HeatNext]_vars

\* the squared radius the claims give for the variant: 1.0 for players, 1.5
\* for the ball
RadiusSquared == IF variant = "player" THEN Scale * Scale ELSE (9 * Scale * Scale) \div 4

\* the number of points q, p = points[j] itself included, at a distance of
\* at most the radius from p
RawCount(j) ==
    Cardinality({q \in 1..Len(points) :
        (points[j].x - points[q].x) * (points[j].x - points[q].x)
          + (points[j].y - points[q].y) * (points[j].y - points[q].y) <= RadiusSquared})

\* the largest raw count of a non-empty set
MaxRawCount == Max({RawCount(j) : j \in 1..Len(points)})

C15_IntensityRange ==
    (hpc = "done" /\ points # <<>>) =>
        /\ Len(heatmap) = Len(points)
        /\ \A j \in 1..Len(points) :
              /\ heatmap[j].intensity.den > 0
              /\ 0 <= heatmap[j].intensity.num
              /\ heatmap[j].intensity.num <= heatmap[j].intensity.den
              /\ RawCount(j) = MaxRawCount
                    => heatmap[j].intensity.num = heatmap[j].intensity.den

\* three ball hits, two of them close: intensities 1, 1 and 1/2
C15_Witness ==
    /\ hpc = "done"
    /\ variant = "ball-hits"
    /\ Len(points) = 3
    /\ heatmap[1].intensity = [num |-> 2, den |-> 2]
    /\ heatmap[2].intensity = [num |-> 2, den |-> 2]
    /\ heatmap[3].intensity = [num |-> 1, den |-> 2]

\* C16: the raw count of each point is the number of points of the set, the
\* point itself included, at a Euclidean distance of at most the radius: 1.0
\* for a player heatmap, 1.5 for the ball-movement and ball-hits heatmaps; a
\* point at exactly the radius counts.
C16_RawDensity ==
    hpc = "done" =>
        /\ Len(density) = Len(points)
        /\ \A j \in 1..Len(points) :
              /\ density[j].x = points[j].x
              /\ density[j].y = points[j].y
              /\ density[j].intensity = RawCount(j)

\* ball positions: the second at exactly 1.5 from the first counts, the
\* third at 2 from the first does not
C16_Witness ==
    /\ hpc = "done"
    /\ variant = "ball-movement"
    /\ points = << [x |-> 0, y |-> 0], [x |-> (3 * Scale) \div 2, y |-> 0],
                   [x |-> 0, y |-> 2 * Scale] >>
    /\ density[1].intensity = 2
    /\ density[2].intensity = 2
    /\ density[3].intensity = 1

(***************************************************************************)
(* The MatchAnalytics screen: state and the fetchMatchData effect          *)
(***************************************************************************)
\* the effect runs started in one behaviour
MaxRuns == 3

MatchIds == {"A", "B"}

\* useState([...]) of ballVelocityData: the series shown before any CSV
InitialBallVelocityData ==
    << [time |-> <<"0",":","0","0">>, velocity |-> 32 * Scale, acceleration |-> 10 * Scale],
       [time |-> <<"0",":","1","5">>, velocity |-> 38 * Scale, acceleration |-> 15 * Scale],
       [time |-> <<"0",":","3","0">>, velocity |-> 45 * Scale, acceleration |-> 20 * Scale],
       [time |-> <<"0",":","4","5">>, velocity |-> 52 * Scale, acceleration |-> 18 * Scale],
       [time |-> <<"1",":","0","0">>, velocity |-> 41 * Scale, acceleration |-> 12 * Scale],
       [time |-> <<"1",":","1","5">>, velocity |-> 35 * Scale, acceleration |-> 8 * Scale] >>

\* What the backend holds for a match: getMatch resolves or rejects, the
\* response has an analysis_data_url or none ("", the URL being opaque), and
\* the URL serves a text of one data row, a text of ten data rows, or fails.
ServerAnswers ==
    { [getMatch |-> "rejects", analysis_data_url |-> "", csv |-> "none"],
      [getMatch |-> "resolves", analysis_data_url |-> "", csv |-> "none"],
      [getMatch |-> "resolves", analysis_data_url |-> "url", csv |-> "throws"],
      [getMatch |-> "resolves", analysis_data_url |-> "url", csv |-> "short"],
      [getMatch |-> "resolves", analysis_data_url |-> "url", csv |-> "long"] }

\* the analysis CSV of a match: every row alike, the fields telling the
\* matches apart; only player 1 has a velocity column, and the hits are
\* player 2's in match A and player 1's in match B
CsvHeaders == <<H_ballVnorm, H_ballAnorm, ball_bounce, ball_x, ball_y, ball_hit, H_p1Vnorm,
                player_ball_hit>>
CsvRow(m) ==
    IF m = "A" THEN << <<"1">>, <<"1">>, <<"1">>, <<"1">>, <<"1">>, <<"1">>, <<"3">>, <<"2">> >>
    ELSE << <<"2">>, <<"2">>, <<"0">>, <<"2">>, <<"2">>, <<"1">>, <<"4">>, <<"1">> >>
CsvLinesLength(kind) == IF kind = "long" THEN 11 ELSE 2

\* the row loop of parseCSVData over a whole text
RECURSIVE MARows(_, _, _, _)
MARows(acc, row, linesLen, line) ==
    IF row < linesLen THEN MARows(MARow(acc, row, line), row + 1, linesLen, line) ELSE acc

\* parseCSVData(url) for each match and each kind of text
CsvData ==
    [m \in MatchIds |->
        [kind \in {"throws", "short", "long"} |->
            IF kind = "throws" THEN MAFailure
            ELSE MAResult(MARows(MALocals(CsvHeaders), 1, CsvLinesLength(kind), CsvRow(m)))]]

\* Math.random(), in thousandths: the ends of [0, 1)
Random == {0, Scale - 1}

\* value || fallback
OrElse(value, fallback) == IF value # 0 THEN value ELSE fallback
OrElseQuot(value, fallback) == IF value.num # 0 THEN value ELSE fallback

\* the playersData loop showing the CSV hit count of every parsed player
playersDataWithCsvHits(csvPlayerData, rnd) ==
    [k \in 1..4 |->
        LET present == k <= Len(csvPlayerData)
            hasRealData == /\ present
                           /\ \/ csvPlayerData[k].totalDistance > 0
                              \/ csvPlayerData[k].avgVelocity.num > 0
        IN [name |-> playerNames[k],
            team |-> IF k <= 2 THEN 1 ELSE 2,
            hasRealData |-> hasRealData,
            coveredDistance |-> IF hasRealData THEN csvPlayerData[k].totalDistance
                                ELSE 2500 * Scale + rnd[k] * 1000,
            avgVelocity |-> IF hasRealData THEN csvPlayerData[k].avgVelocity
                            ELSE Quot(10 * Scale + rnd[k] * 5, 1),
            maxVelocity |-> IF hasRealData THEN csvPlayerData[k].maxVelocity
                            ELSE 25 * Scale + rnd[k] * 10,
            totalHits |-> IF present THEN csvPlayerData[k].hitCount
                          ELSE 120 + ((rnd[k] * 80) \div Scale),
            heatmapData |-> IF present THEN playerHeatmapData(csvPlayerData[k].positionData)
                            ELSE <<>>]]

\* the playersData loop; rnd[k] is what Math.random() gives for player k
playersDataOf(csvPlayerData, rnd) ==
    [k \in 1..4 |->
        LET present == k <= Len(csvPlayerData)
            hasRealData == /\ present
                           /\ \/ csvPlayerData[k].totalDistance > 0
                              \/ csvPlayerData[k].avgVelocity.num > 0
        IN [name |-> playerNames[k],
            team |-> IF k <= 2 THEN 1 ELSE 2,
            hasRealData |-> hasRealData,
            coveredDistance |-> IF hasRealData THEN csvPlayerData[k].totalDistance
                                ELSE 2500 * Scale + rnd[k] * 1000,
            avgVelocity |-> IF hasRealData THEN csvPlayerData[k].avgVelocity
                            ELSE Quot(10 * Scale + rnd[k] * 5, 1),
            maxVelocity |-> IF hasRealData THEN csvPlayerData[k].maxVelocity
                            ELSE 25 * Scale + rnd[k] * 10,
            totalHits |-> IF hasRealData THEN csvPlayerData[k].hitCount
                          ELSE 120 + ((rnd[k] * 80) \div Scale),
            heatmapData |-> IF present THEN playerHeatmapData(csvPlayerData[k].positionData)
                            ELSE <<>>]]

\* transformedMatchData
transformedMatchData(matchResponse, csvPlayerData, ballData, rnd) ==
    [id |-> matchResponse.id,
     players |-> playersDataOf(csvPlayerData, rnd),
     ballStats |->
        [coveredDistance |-> OrElse(ballData.totalDistance, 8942 * Scale),
         avgVelocity |-> OrElseQuot(ballData.avgVelocity, Quot(35700, 1)),
         maxVelocity |-> OrElse(ballData.maxVelocity, 89300),
         avgAcceleration |-> OrElseQuot(ballData.avgAcceleration, Quot(12400, 1))]]

\* the MatchResponse getMatch resolves with
MatchResponseOf(m) == [id |-> m, analysis_data_url |-> server[m].analysis_data_url]

\* useEffect(() => { fetchMatchData(); }, [matchId, token]) with the values
\* m and t of this render: up to the first await
fetchMatchData(m, t) ==
    IF m = "" \/ t = ""
    THEN /\ runs' = Append(runs, [matchId |-> m, token |-> t, pc |-> "done"])
         /\ UNCHANGED loading
    ELSE /\ runs' = Append(runs, [matchId |-> m, token |-> t, pc |-> "getMatch"])
         /\ loading' = TRUE

\* the first render of the screen
Mount ==
    /\ runs = <<>>
    /\ fetchMatchData(matchId, token)
    /\ UNCHANGED <<matchId, token, match, matchData, error, csvBallData, ballVelocityData, server>>
    /\ UNCHANGED <<parseVars, resolveVars, heatVars, authVars, uploadVars, reportVars, dashVars>>

\* the route changes to another match while the screen stays mounted
Navigate(m) ==
    /\ runs # <<>>
    /\ Len(runs) < MaxRuns
    /\ m # matchId
    /\ matchId' = m
    /\ fetchMatchData(m, token)
    /\ UNCHANGED <<token, match, matchData, error, csvBallData, ballVelocityData, server>>
    /\ UNCHANGED <<parseVars, resolveVars, heatVars, authVars, uploadVars, reportVars, dashVars>>

\* the auth context delivers the stored token
TokenArrives ==
    /\ runs # <<>>
    /\ Len(runs) < MaxRuns
    /\ token = ""
    /\ token' = "token"
    /\ fetchMatchData(matchId, "token")
    /\ UNCHANGED <<matchId, match, matchData, error, csvBallData, ballVelocityData, server>>
    /\ UNCHANGED <<parseVars, resolveVars, heatVars, authVars, uploadVars, reportVars, dashVars>>

\* await apiClient.getMatch(...) rejects: catch, finally
GetMatchRejects(r) ==
    /\ runs[r].pc = "getMatch"
    /\ server[runs[r].matchId].getMatch = "rejects"
    /\ error' = "Failed to load match data"
    /\ loading' = FALSE
    /\ runs' = [runs EXCEPT ![r].pc = "done"]
    /\ UNCHANGED <<matchId, token, match, matchData, csvBallData, ballVelocityData, server>>
    /\ UNCHANGED <<parseVars, resolveVars, heatVars, authVars, uploadVars, reportVars, dashVars>>

\* await apiClient.getMatch(...) resolves: setMatch, then either the await of
\* parseCSVData or, without an analysis_data_url, the rest of the body
GetMatchResolves(r) ==
    /\ runs[r].pc = "getMatch"
    /\ server[runs[r].matchId].getMatch = "resolves"
    /\ match' = MatchResponseOf(runs[r].matchId)
    /\ IF MatchResponseOf(runs[r].matchId).analysis_data_url # ""
       THEN /\ runs' = [runs EXCEPT ![r].pc = "parseCSVData"]
            /\ UNCHANGED <<matchData, loading>>
       ELSE /\ \E rnd \in [1..4 -> Random] :
                 matchData' = transformedMatchData(MatchResponseOf(runs[r].matchId), <<>>,
                                                   EmptyBallData, rnd)
            /\ loading' = FALSE
            /\ runs' = [runs EXCEPT ![r].pc = "done"]
    /\ UNCHANGED <<matchId, token, error, csvBallData, ballVelocityData, server>>
    /\ UNCHANGED <<parseVars, resolveVars, heatVars, authVars, uploadVars, reportVars, dashVars>>

\* await parseCSVData(...) resolves: setCsvBallData, setBallVelocityData when
\* the series is not empty, setMatchData, finally
ParseCSVDataResolves(r) ==
    /\ runs[r].pc = "parseCSVData"
    /\ LET csvData == CsvData[runs[r].matchId][server[runs[r].matchId].csv]
       IN /\ csvBallData' = csvData.ball
          /\ ballVelocityData' = IF Len(csvData.ball.velocityOverTime) > 0
                                 THEN csvData.ball.velocityOverTime
                                 ELSE ballVelocityData
          /\ \E rnd \in [1..4 -> Random] :
                matchData' = transformedMatchData(MatchResponseOf(runs[r].matchId),
                                                  csvData.players, csvData.ball, rnd)
    /\ loading' = FALSE
    /\ runs' = [runs EXCEPT ![r].pc = "done"]
    /\ UNCHANGED <<matchId, token, match, error, server>>
    /\ UNCHANGED <<parseVars, resolveVars, heatVars, authVars, uploadVars, reportVars, dashVars>>

Init ==
    /\ matchId \in MatchIds
    /\ token \in {"", "token"}
    /\ match = Null
    /\ matchData = Null
    /\ loading = TRUE
    /\ error = ""
    /\ csvBallData = EmptyBallData
    /\ ballVelocityData = InitialBallVelocityData
    /\ runs = <<>>
    /\ server \in [MatchIds -> ServerAnswers]
    /\ ParseIdle
    /\ ResolveIdle
    /\ HeatIdle
    /\ AuthIdle
    /\ UploadIdle
    /\ ReportIdle
    /\ DashIdle

Next ==
    \/ Mount
    \/ \E m \in MatchIds : Navigate(m)
    \/ TokenArrives
    \/ \E r \in 1..Len(runs) : GetMatchRejects(r)
    \/ \E r \in 1..Len(runs) : GetMatchResolves(r)
    \/ \E r \in 1..Len(runs) : ParseCSVDataResolves(r)

Spec == Init /\ [][Next]_vars

\* every run started so far has run to its end
Settled == \A r \in 1..Len(runs) : runs[r].pc = "done"

\* C1: a run of fetchMatchData whose match is no longer the one of the route
\* writes nothing to match, matchData, csvBallData and ballVelocityData when
\* one of its awaits resolves, so that once every run has settled, a match or
\* matchData on display is the one of the route.
C1_StaleDiscarded ==
    [][ /\ \A r \in 1..Len(runs) :
              (runs'[r].pc # runs[r].pc /\ runs[r].matchId # matchId)
                  => UNCHANGED <<match, matchData, csvBallData, ballVelocityData>>
        /\ (Settled' /\ server[matchId'].getMatch = "resolves" /\ token' # "")
              => (match'.id = matchId' /\ matchData'.id = matchId')
      ]_vars

\* the series and statistics the screen shows for match m when nothing of
\* another match survives
FreshBallData(m) ==
    IF server[m].analysis_data_url # "" THEN CsvData[m][server[m].csv].ball ELSE EmptyBallData

\* C2: when the latest run of fetchMatchData completes a load (every other
\* run having settled) after another match was on display, csvBallData is
\* what this run computed from its own CSV, or the zero/empty default when
\* the match has no CSV; ballVelocityData is this run's series, or a default
\* (the empty or the initial series) when this run's series is empty.
C2_TransientPerFetch ==
    [][ \A r \in 1..Len(runs) :
           ( /\ r = Len(runs)
             /\ runs[r].pc # "done"
             /\ runs'[r].pc = "done"
             /\ server[runs[r].matchId].getMatch = "resolves"
             /\ \A q \in 1..(r - 1) : runs[q].pc = "done"
             /\ matchData # Null
             /\ matchData.id # runs[r].matchId )
           => /\ csvBallData' = FreshBallData(runs[r].matchId)
              /\ ballVelocityData' =
                    (IF FreshBallData(runs[r].matchId).velocityOverTime # <<>>
                     THEN FreshBallData(runs[r].matchId).velocityOverTime
                     ELSE ballVelocityData')
              /\ (FreshBallData(runs[r].matchId).velocityOverTime = <<>>
                     => ballVelocityData' \in {<<>>, InitialBallVelocityData})
      ]_vars

(***************************************************************************)
(* Claims about parseCSVData                                               *)
(***************************************************************************)
\* the fetch failed: it threw, or the response is not a 2xx
Failed == response.kind = "throw" \/ response.status \notin 200..299

\* the rows read so far
RowsRead == i - 1

lowerVelocityName(k) == toLowerCase(playerVelocityColumns[k])
lowerDistanceName(k) == toLowerCase(playerDistanceColumns[k])

\* the label of a row of the first minute: floor((row - 1) / 30) seconds as M:SS
TimeLabel(row) ==
    LET t == (row - 1) \div 30
    IN <<Digits[(t \div 60) + 1], ":", Digits[((t % 60) \div 10) + 1], Digits[(t % 10) + 1]>>

\* C3: MatchAnalytics parseCSVData returns a value for every fetch outcome,
\* and when the fetch failed (a throw, a non-2xx response) the ball statistics
\* it returns are all zero with empty series and position lists.
C3_FailSoft ==
    (pc = "done" /\ screen = "MatchAnalytics") =>
        /\ ret # Null
        /\ Failed => ret.ball = EmptyBallData

\* C4: the Dashboard parser, on a failed fetch (a 500 response or a throw),
\* returns an empty velocityOverTime, one zero-hit entry for each of the four
\* players, and the four player names.
C4_DashFailure ==
    (pc = "done" /\ screen = "Dashboard" /\ Failed) =>
        /\ ret.velocityOverTime = <<>>
        /\ ret.playerHitsData = [idx \in 1..4 |-> [name |-> playerNames[idx], hits |-> 0]]
        /\ ret.playerNames = playerNames

\* C5: a missing column degrades only its own statistics: player k's
\* velocity and distance lists (hence totalDistance, avgVelocity and
\* maxVelocity) are fed from player k's own column when the header has it,
\* and stay empty (statistics 0) when it has not; in the Dashboard series the
\* 'Player k' value of a sample is the one of player k's own column, and is
\* absent when the column is.
C5_MissingColumn ==
    /\ (screen = "MatchAnalytics" /\ pc = "rows" /\ RowsRead >= 1) =>
          \A k \in 1..4 :
             LET v == ColumnOf(headers, lowerVelocityName(k))
                 d == ColumnOf(headers, lowerDistanceName(k))
                 vs == ma.playerVelocities[k - 1]
                 ds == ma.playerDistances[k - 1]
             IN /\ v = -1 => vs = <<>>
                /\ (v # -1 /\ ~isNaN(parseFloat(At(values, v))))
                      => (vs # <<>> /\ vs[Len(vs)] = parseFloat(At(values, v)))
                /\ d = -1 => ds = <<>>
                /\ (d # -1 /\ ~isNaN(parseFloat(At(values, d))))
                      => (ds # <<>> /\ ds[Len(ds)] = parseFloat(At(values, d)))
    /\ (screen = "MatchAnalytics" /\ pc = "done" /\ response.kind = "response") =>
          \A k \in 1..4 :
             /\ ColumnOf(headers, lowerVelocityName(k)) = -1
                   => (ret.players[k].avgVelocity = Zero /\ ret.players[k].maxVelocity = 0)
             /\ ColumnOf(headers, lowerDistanceName(k)) = -1
                   => ret.players[k].totalDistance = 0
    /\ (screen = "Dashboard" /\ pc = "rows" /\ RowsRead >= 1 /\ dashSampled(RowsRead)) =>
          \A k \in 1..4 :
             LET v == ColumnOf(headers, lowerVelocityName(k))
                 e == db.velocityOverTime[Len(db.velocityOverTime)]
             IN IF v = -1 THEN playerNames[k] \notin DOMAIN e
                ELSE /\ playerNames[k] \in DOMAIN e
                     /\ e[playerNames[k]] = parseFloatOrZero(At(values, v))

C7_SeriesLength ==
    [][ /\ (screen = "MatchAnalytics" /\ pc = "fetch" /\ pc' = "rows")
            => ma'.ballVelocityOverTime = <<>>
        /\ (screen = "MatchAnalytics" /\ pc = "rows" /\ i' = i + 1) =>
            LET v == ColumnOf(headers, ball_vnorm)
                a == ColumnOf(headers, ball_anorm)
                counted == /\ i % 10 = 0
                           /\ v # -1
                           /\ a # -1
                           /\ ~isNaN(parseFloat(At(values', v)))
                           /\ ~isNaN(parseFloat(At(values', a)))
            IN /\ Len(ma'.ballVelocityOverTime)
                     = Len(ma.ballVelocityOverTime) + (IF counted THEN 1 ELSE 0)
               /\ Len(ma'.ballVelocityOverTime) <= i \div 10
        /\ (screen = "MatchAnalytics" /\ pc = "rows" /\ pc' = "done")
            => ret'.ball.velocityOverTime = ma.ballVelocityOverTime
      ]_vars

\* of the sampled rows 10, 20 and 30, two had both fields and one had not
C7_Witness ==
    /\ screen = "MatchAnalytics"
    /\ pc = "done"
    /\ headers = <<H_ballVnorm, H_ballAnorm>>
    /\ linesLength >= 31
    /\ Len(ret.ball.velocityOverTime) = 2
    /\ Len(ma.ballAccelerations) = linesLength - 2

\* some velocity column of the header has no parseable field in this row
LacksVelocity(hs, vals) ==
    \E k \in 1..4 :
        /\ ColumnOf(hs, lowerVelocityName(k)) # -1
        /\ isNaN(parseFloat(At(vals, ColumnOf(hs, lowerVelocityName(k)))))

\* the velocity columns of the header, in player order
PresentVelocityColumns(hs) ==
    SelectSeq([k \in 1..4 |-> ColumnOf(hs, lowerVelocityName(k))], LAMBDA c : c # -1)

C10_HitCounts ==
    [][ /\ (pc = "fetch" /\ pc' = "rows") =>
            \A p \in Players :
               (IF screen = "MatchAnalytics" THEN ma'.playerHitCounts ELSE db'.playerHitCounts)[p] = 0
        /\ (pc = "rows" /\ i' = i + 1) =>
            LET n == parseInt(At(values', ColumnOf(headers, player_ball_hit)))
            IN \A p \in 1..4 :
                  (IF screen = "MatchAnalytics" THEN ma'.playerHitCounts ELSE db'.playerHitCounts)[p - 1]
                    = (IF screen = "MatchAnalytics" THEN ma.playerHitCounts ELSE db.playerHitCounts)[p - 1]
                      + (IF n = p THEN 1 ELSE 0)
        /\ (pc = "rows" /\ pc' = "done" /\ screen = "MatchAnalytics") =>
            \A p \in 1..4 : ret'.players[p].hitCount = ma.playerHitCounts[p - 1]
        /\ (pc = "rows" /\ pc' = "done" /\ screen = "Dashboard") =>
            \A p \in 1..4 : ret'.playerHitsData[p].hits = db.playerHitCounts[p - 1]
      ]_vars

\* of two rows, " 4 " counted for player 4 and "5" counted for nobody
C10_Witness ==
    /\ screen = "MatchAnalytics"
    /\ pc = "done"
    /\ headers = <<player_ball_hit>>
    /\ linesLength = 3
    /\ values = << <<"5">> >>
    /\ ret.players[4].hitCount = 1
    /\ \A p \in 1..3 : ret.players[p].hitCount = 0

\* the field of this column has no parseable value in any data row of the text
NoSamples(c) ==
    \/ c = -1
    \/ linesLength = 1
    \/ \A f \in alphabet[c + 1] : isNaN(parseFloat(f))

\* C11: an entity whose field has no parseable sample in the text (the column
\* is absent, there is no data row, or no field of the column parses) has that
\* field's summary value exactly 0: totalDistance, avgVelocity and maxVelocity
\* of the four players and of the ball, and the ball's avgAcceleration.
C11_ZeroWithoutSamples ==
    (screen = "MatchAnalytics" /\ pc = "done" /\ response.kind = "response") =>
        /\ \A k \in 1..4 :
              /\ NoSamples(ColumnOf(headers, lowerVelocityName(k)))
                    => (ret.players[k].avgVelocity = Zero /\ ret.players[k].maxVelocity = 0)
              /\ NoSamples(ColumnOf(headers, lowerDistanceName(k)))
                    => ret.players[k].totalDistance = 0
        /\ NoSamples(ColumnOf(headers, ball_distance)) => ret.ball.totalDistance = 0
        /\ NoSamples(ColumnOf(headers, ball_vnorm))
              => (ret.ball.avgVelocity = Zero /\ ret.ball.maxVelocity = 0)
        /\ NoSamples(ColumnOf(headers, ball_anorm)) => ret.ball.avgAcceleration = Zero

\* list with the field of column c of this row appended when it parses
WithParsed(list, vals, c) ==
    LET column == c
        field == At(vals, column)
        v == parseFloat(field)
    IN IF column # -1 /\ ~isNaN(v) THEN Append(list, v) ELSE list

\* the mean of a non-empty list, as a quotient
MeanOf(list) == [num |-> Sum(list), den |-> Len(list)]

\* C12: every entity's velocity and distance values are the fields of its own
\* column that parsed, in row order, a field that does not parse adding
\* nothing; avgVelocity is their sum over their number, maxVelocity their
\* maximum and totalDistance the sum of the distance values.
C12_SkippedNotZeroFilled ==
    [][ /\ (screen = "MatchAnalytics" /\ pc = "rows" /\ i' = i + 1) =>
            /\ \A k \in 1..4 :
                  /\ ma'.playerVelocities[k - 1] =
                        WithParsed(ma.playerVelocities[k - 1], values',
                                   ColumnOf(headers, lowerVelocityName(k)))
                  /\ ma'.playerDistances[k - 1] =
                        WithParsed(ma.playerDistances[k - 1], values',
                                   ColumnOf(headers, lowerDistanceName(k)))
            /\ ma'.ballVelocities =
                  WithParsed(ma.ballVelocities, values', ColumnOf(headers, ball_vnorm))
            /\ ma'.ballDistances =
                  WithParsed(ma.ballDistances, values', ColumnOf(headers, ball_distance))
        /\ (screen = "MatchAnalytics" /\ pc = "rows" /\ pc' = "done") =>
            /\ \A k \in 1..4 :
                  /\ ma.playerVelocities[k - 1] # <<>> =>
                        /\ ret'.players[k].avgVelocity = MeanOf(ma.playerVelocities[k - 1])
                        /\ ret'.players[k].maxVelocity = MaxOf(ma.playerVelocities[k - 1])
                  /\ ret'.players[k].totalDistance = Sum(ma.playerDistances[k - 1])
            /\ ma.ballVelocities # <<>> =>
                  /\ ret'.ball.avgVelocity = MeanOf(ma.ballVelocities)
                  /\ ret'.ball.maxVelocity = MaxOf(ma.ballVelocities)
            /\ ret'.ball.totalDistance = Sum(ma.ballDistances)
      ]_vars

\* C13: bounceCount is the arithmetic sum of the ball_bounce fields that
\* parsed: it starts at 0, every row adds the value of its field (2 for a
\* field 2, nothing for a field that is absent or does not parse), and the
\* sum is what is returned.
C13_BounceSum ==
    [][ /\ (screen = "MatchAnalytics" /\ pc = "fetch" /\ pc' = "rows")
            => Sum(ma'.ballBounces) = 0
        /\ (screen = "MatchAnalytics" /\ pc = "rows" /\ i' = i + 1) =>
            LET c == ColumnOf(headers, ball_bounce)
                v == parseFloat(At(values', c))
            IN Sum(ma'.ballBounces)
                  = Sum(ma.ballBounces) + (IF c # -1 /\ ~isNaN(v) THEN v ELSE 0)
        /\ (screen = "MatchAnalytics" /\ pc = "rows" /\ pc' = "done")
            => ret'.ball.bounceCount = Sum(ma.ballBounces)
      ]_vars

\* two rows with the field 2 give bounceCount 4
C13_Witness ==
    /\ screen = "MatchAnalytics"
    /\ pc = "done"
    /\ response.kind = "response"
    /\ linesLength = 3
    /\ At(headers, 1) = ball_bounce
    /\ At(values, 1) = <<"2">>
    /\ Len(ma.ballBounces) = 2
    /\ ret.ball.bounceCount = 4 * Scale

\* C17: the ball-hit positions start empty; a row adds its (ball_x, ball_y)
\* exactly when both parse and the row's ball_hit field is exactly 1; a row
\* whose ball_hit is 0, 2, empty or unparseable adds nothing, and nothing is
\* ever added when the header has no ball_hit column; the list is returned
\* as it is.
C17_BallHitPositions ==
    [][ /\ (screen = "MatchAnalytics" /\ pc = "fetch" /\ pc' = "rows")
            => ma'.ballHitPositions = <<>>
        /\ (screen = "MatchAnalytics" /\ pc = "rows" /\ i' = i + 1) =>
            LET xc == ColumnOf(headers, ball_x)
                yc == ColumnOf(headers, ball_y)
                hc == ColumnOf(headers, ball_hit)
                x == parseFloat(At(values', xc))
                y == parseFloat(At(values', yc))
                isHit == /\ xc # -1
                         /\ yc # -1
                         /\ hc # -1
                         /\ ~isNaN(x)
                         /\ ~isNaN(y)
                         /\ parseFloat(At(values', hc)) = 1 * Scale
            IN ma'.ballHitPositions =
                  (IF isHit THEN ma.ballHitPositions \o << [x |-> x, y |-> y] >>
                   ELSE ma.ballHitPositions)
        /\ (screen = "MatchAnalytics" /\ pc = "rows" /\ pc' = "done")
            => ret'.ball.hitPositions = ma.ballHitPositions
      ]_vars

\* of two rows with a position, the one with ball_hit 1 is a hit position and
\* the one with ball_hit 2 is not
C17_Witness ==
    /\ screen = "MatchAnalytics"
    /\ pc = "done"
    /\ response.kind = "response"
    /\ linesLength = 3
    /\ At(headers, 4) = ball_hit
    /\ At(values, 4) = <<"2">>
    /\ Len(ret.ball.positionData) = 2
    /\ ret.ball.hitPositions = << [x |-> 1 * Scale, y |-> 1 * Scale] >>

\* the columns of these names that the header has, in the order of the names
PresentColumns(hs, names) ==
    SelectSeq([n \in 1..4 |-> ColumnOf(hs, toLowerCase(names[n]))], LAMBDA c : c # -1)

\* the column that feeds the k-th list of a parser: the k-th present column,
\* -1 when there are fewer
SlotColumn(present, k) == IF k <= Len(present) THEN present[k] ELSE -1

\* the row read in this step leaves every list of MatchAnalytics as it was
\* where its field is missing or does not parse, and adds its value where it
\* parses, whatever the rows before it were
MAFieldsRecovered ==
    LET velocityColumns == PresentColumns(headers, playerVelocityColumns)
        distanceColumns == PresentColumns(headers, playerDistanceColumns)
    IN /\ \A k \in 1..4 :
             /\ ma'.playerVelocities[k - 1] =
                   WithParsed(ma.playerVelocities[k - 1], values', SlotColumn(velocityColumns, k))
             /\ ma'.playerDistances[k - 1] =
                   WithParsed(ma.playerDistances[k - 1], values', SlotColumn(distanceColumns, k))
       /\ ma'.ballDistances =
             WithParsed(ma.ballDistances, values', ColumnOf(headers, ball_distance))
       /\ ma'.ballVelocities =
             WithParsed(ma.ballVelocities, values', ColumnOf(headers, ball_vnorm))
       /\ ma'.ballAccelerations =
             WithParsed(ma.ballAccelerations, values', ColumnOf(headers, ball_anorm))
       /\ ma'.ballBounces = WithParsed(ma.ballBounces, values', ColumnOf(headers, ball_bounce))

\* the parse goes on after every row, and a text that was fetched is never
\* answered with the value of the catch block
NeverAborts ==
    /\ (pc = "rows" /\ i' = i + 1) => pc' = "rows"
    /\ (pc = "rows" /\ pc' = "done" /\ screen = "MatchAnalytics") => Len(ret'.players) = 4
    /\ (pc = "rows" /\ pc' = "done" /\ screen = "Dashboard") => ret'.playerNames = playerNames

RECURSIVE NumberOf(_)
NumberOf(ds) ==
    IF ds = <<>> THEN 0
    ELSE 10 * NumberOf(SubSeq(ds, 1, Len(ds) - 1))
           + (CHOOSE n \in 0..9 : Digits[n + 1] = ds[Len(ds)])

\* label is minutes:seconds, the seconds in two digits and below 60, the
\* minutes without a leading zero
IsMinutesSeconds(label) ==
    /\ Len(label) >= 4
    /\ label[Len(label) - 2] = ":"
    /\ \A k \in (1..Len(label)) \ {Len(label) - 2} : \E n \in 0..9 : Digits[n + 1] = label[k]
    /\ NumberOf(SubSeq(label, Len(label) - 1, Len(label))) < 60
    /\ (Len(label) > 4 => label[1] # "0")

\* the seconds a label stands for
LabelSeconds(label) ==
    60 * NumberOf(SubSeq(label, 1, Len(label) - 3))
      + NumberOf(SubSeq(label, Len(label) - 1, Len(label)))

\* the time of the entry a series ends with
LastTime(series) ==
    IF screen = "MatchAnalytics" THEN series[Len(series)].time ELSE series[Len(series)]["time"]

\* C19: the entry a parser adds for row i is labelled minutes:seconds, the
\* seconds zero-padded to two digits, standing for floor((i - 1) / 30)
\* seconds: "0:00" for rows 10 and 30, "0:01" for row 31; the labels of a
\* series never decrease.
C19_TimeLabels ==
    [][ (pc = "rows" /\ i' = i + 1) =>
          LET before == IF screen = "MatchAnalytics" THEN ma.ballVelocityOverTime
                        ELSE db.velocityOverTime
              after == IF screen = "MatchAnalytics" THEN ma'.ballVelocityOverTime
                       ELSE db'.velocityOverTime
          IN Len(after) > Len(before) =>
                /\ IsMinutesSeconds(LastTime(after))
                /\ LabelSeconds(LastTime(after)) = (i - 1) \div 30
                /\ i \in {10, 30} => LastTime(after) = <<"0", ":", "0", "0">>
                /\ i = 31 => LastTime(after) = <<"0", ":", "0", "1">>
                /\ Len(before) > 0 => LabelSeconds(LastTime(before)) <= LabelSeconds(LastTime(after))
      ]_vars

\* the Dashboard series passes from 0:59 at row 1791 to 1:00 at row 1801
C19_Witness ==
    /\ screen = "Dashboard"
    /\ pc = "rows"
    /\ RowsRead = 1801
    /\ Len(db.velocityOverTime) = 181
    /\ db.velocityOverTime[180]["time"] = <<"0", ":", "5", "9">>
    /\ db.velocityOverTime[181]["time"] = <<"1", ":", "0", "0">>

\* C20: when getMatch has resolved and the CSV is missing or its fetch fails,
\* the run of fetchMatchData ends with matchData set to the match, loading
\* false and error empty.
C20_CsvFailureNotSurfaced ==
    [][ \A r \in 1..Len(runs) :
           ( /\ runs[r].pc # "done"
             /\ runs'[r].pc = "done"
             /\ server[runs[r].matchId].getMatch = "resolves"
             /\ server[runs[r].matchId].csv \in {"none", "throws"} )
           => /\ matchData' # Null
              /\ matchData'.id = runs[r].matchId
              /\ loading' = FALSE
              /\ error' = ""
      ]_vars

\* ---------------------------------------------------------------------
\* AuthProvider: the session state, its timers, and ApiClient.request
\* ---------------------------------------------------------------------

\* the clock advances in steps of TickMs, MaxTicks times at most
MaxTicks == 5
TickMs == 60 * 1000
StartMs == 60 * 1000
bufferMs == 60000
FiveMinutes == 5 * 60 * 1000

\* at most MaxInFlight calls of ApiClient.request await their fetch
MaxInFlight == 1

\* a token is its number of dot-separated parts and what
\* JSON.parse(atob(parts[1])) gives: a payload, or Null when that throws
JWT(e) == [parts |-> 3, payload |-> [exp |-> e]]
JWTWithoutExp == [parts |-> 3, payload |-> [sub |-> "amy"]]
Undecodable == [parts |-> 3, payload |-> Null]
NotAJWT == [parts |-> 1, payload |-> Null]
Tokens == {JWT(30), JWT(180), JWTWithoutExp, Undecodable, NotAJWT}

decodeJWT(tokenValue) ==
    IF tokenValue.parts # 3 THEN Null ELSE tokenValue.payload

\* !payload || !payload.exp
LacksExp(payload) ==
    \/ payload = Null
    \/ "exp" \notin DOMAIN payload
    \/ payload.exp = 0

isTokenExpired(tokenValue) ==
    IF tokenValue = Null
    THEN TRUE
    ELSE LET payload == decodeJWT(tokenValue)
         IN IF LacksExp(payload) THEN TRUE ELSE now >= payload.exp * 1000

getTimeUntilExpiration(tokenValue) ==
    IF tokenValue = Null
    THEN 0
    ELSE LET payload == decodeJWT(tokenValue)
         IN IF LacksExp(payload)
            THEN 0
            ELSE IF payload.exp * 1000 - now > 0 THEN payload.exp * 1000 - now ELSE 0

\* handleLogout: setUser(null); setToken(null); both keys removed
handleLogout(a) == [a EXCEPT !.user = Null, !.token = Null]
RemovedItems == [padel_user |-> Null, padel_token |-> Null]

\* the timeouts pending after setupTokenExpirationCheck(tokenValue); two
\* timeouts of the same token due at the same time are kept as one
setupTokenExpirationCheck(tokenValue) ==
    LET timeUntilExpiration == getTimeUntilExpiration(tokenValue)
        bufferTime == IF timeUntilExpiration - bufferMs > 0
                      THEN timeUntilExpiration - bufferMs ELSE 0
    IN IF timeUntilExpiration > 0
       THEN timeouts \cup {[tokenValue |-> tokenValue, at |-> now + bufferTime]}
       ELSE timeouts

\* email.split("@")[0]
RECURSIVE beforeAt(_)
beforeAt(s) ==
    IF s = <<>> \/ Head(s) = "@" THEN <<>> ELSE <<Head(s)>> \o beforeAt(Tail(s))

Emails == {<<"a", "m", "y", "@", "c">>}

\* the mock user of login and verifyOTP
userDataOf(email) ==
    [id |-> toString(now), email |-> email, name |-> beforeAt(email),
     createdAt |-> [date |-> now]]

\* JSON.stringify of a user: a Date becomes its ISO string
JSONstringify(u) ==
    [json |-> [u EXCEPT !.createdAt = [iso |-> IF "date" \in DOMAIN u.createdAt
                                                THEN u.createdAt.date
                                                ELSE u.createdAt.iso]]]
NotJSON == [text |-> "{"]
JSONparseThrows(s) == "json" \notin DOMAIN s
JSONparse(s) == s.json

\* { ...user, ...data }
Spread(u, data) ==
    [k \in DOMAIN u \cup DOMAIN data |-> IF k \in DOMAIN data THEN data[k] ELSE u[k]]

ProfileData == {[club |-> <<"c">>]}

\* ---- ApiClient.request ----
Statuses == {0, 200, 401, 500}

NewCall(method, email, header) ==
    [method |-> method, email |-> email, header |-> header,
     sent |-> FALSE, called |-> FALSE, status |-> 0, outcome |-> "pending"]

Bearer(tokenValue) == [scheme |-> "Bearer", token |-> tokenValue]

\* request(): from its call to the await of fetch, the expiry check left out
requestBeginsUnchecked(call) == [call EXCEPT !.sent = TRUE]

\* request(): from its call to the await of fetch
requestBegins(call) ==
    IF /\ call.header # Null
       /\ call.header.scheme = "Bearer"
       /\ isTokenExpired(call.header.token)
    THEN [call EXCEPT !.called = onTokenExpired # Null, !.outcome = "Token expired"]
    ELSE [call EXCEPT !.sent = TRUE]

\* request(): from the fetch settling to its return or throw; status 0 is
\* fetch rejecting
requestEnds(call, status) ==
    IF status = 0
    THEN [call EXCEPT !.outcome = "fetch rejected"]
    ELSE IF status = 401
    THEN [call EXCEPT !.status = status, !.called = onTokenExpired # Null,
                      !.outcome = "Authentication failed"]
    ELSE IF status \notin 200..299
    THEN [call EXCEPT !.status = status, !.outcome = "API Error"]
    ELSE [call EXCEPT !.status = status, !.outcome = "body"]

\* the state after the callback, when the request invoked it
AfterCallback(call, a) == IF call.called THEN handleLogout(a) ELSE a
StorageAfterCallback(call) == IF call.called THEN RemovedItems ELSE localStorage

\* useEffect(..., [token]): a new token value restarts the interval
SetAuth(a) ==
    /\ auth' = a
    /\ intervalAt' = IF a.token # auth.token THEN now + FiveMinutes ELSE intervalAt

\* ---- the actions ----

\* the mount effect: register the callback, restore a saved session
AuthMount ==
    /\ apc = "mount"
    /\ apc' = "ready"
    /\ onTokenExpired' = [callback |-> "handleLogout"]
    /\ LET savedUser == localStorage.padel_user
           savedToken == localStorage.padel_token
       IN IF savedUser # Null /\ savedToken # Null
          THEN IF isTokenExpired(savedToken) \/ JSONparseThrows(savedUser)
               THEN /\ localStorage' = RemovedItems
                    /\ SetAuth([auth EXCEPT !.loading = FALSE])
                    /\ UNCHANGED timeouts
               ELSE /\ SetAuth([user |-> JSONparse(savedUser), token |-> savedToken,
                                loading |-> FALSE])
                    /\ timeouts' = setupTokenExpirationCheck(savedToken)
                    /\ UNCHANGED localStorage
          ELSE /\ SetAuth([auth EXCEPT !.loading = FALSE])
               /\ UNCHANGED <<localStorage, timeouts>>
    /\ UNCHANGED <<now, inflight, settled>>
    /\ UNCHANGED <<parseVars, resolveVars, screenVars, heatVars, uploadVars, reportVars, dashVars>>

Tick ==
    /\ now < StartMs + MaxTicks * TickMs
    /\ now' = now + TickMs
    /\ UNCHANGED <<auth, localStorage, timeouts, intervalAt, onTokenExpired, inflight, settled, apc>>
    /\ UNCHANGED <<parseVars, resolveVars, screenVars, heatVars, uploadVars, reportVars, dashVars>>

\* the callback of a setTimeout runs, at its time or later
TimeoutFires(tm) ==
    /\ tm \in timeouts
    /\ now >= tm.at
    /\ timeouts' = timeouts \ {tm}
    /\ IF isTokenExpired(tm.tokenValue)
       THEN /\ SetAuth(handleLogout(auth))
            /\ localStorage' = RemovedItems
       ELSE UNCHANGED <<auth, intervalAt, localStorage>>
    /\ UNCHANGED <<now, onTokenExpired, inflight, settled, apc>>
    /\ UNCHANGED <<parseVars, resolveVars, screenVars, heatVars, uploadVars, reportVars, dashVars>>

\* the callback of the setInterval runs
PeriodicCheck ==
    /\ apc = "ready"
    /\ now >= intervalAt
    /\ IF auth.token # Null /\ isTokenExpired(auth.token)
       THEN /\ auth' = handleLogout(auth)
            /\ localStorage' = RemovedItems
       ELSE UNCHANGED <<auth, localStorage>>
    /\ intervalAt' = now + FiveMinutes
    /\ UNCHANGED <<now, timeouts, onTokenExpired, inflight, settled, apc>>
    /\ UNCHANGED <<parseVars, resolveVars, screenVars, heatVars, uploadVars, reportVars, dashVars>>

\* login(), signup() or verifyOTP() up to its await: setLoading(true) and
\* the request, which carries no Authorization header
ContextCalls(method, email) ==
    /\ apc = "ready"
    /\ Cardinality(inflight) < MaxInFlight
    /\ inflight' = inflight \cup {requestBegins(NewCall(method, email, Null))}
    /\ auth' = [auth EXCEPT !.loading = TRUE]
    /\ UNCHANGED <<now, localStorage, timeouts, intervalAt, onTokenExpired, settled, apc>>
    /\ UNCHANGED <<parseVars, resolveVars, screenVars, heatVars, uploadVars, reportVars, dashVars>>

LoginCalls(email) == ContextCalls("login", email)
SignupCalls(email) == ContextCalls("register", email)
VerifyOTPCalls(email) == ContextCalls("verifyOTP", email)

\* login() from the await on: access_token is the token of the body
LoginSettles(call, status, access_token) ==
    /\ call \in inflight
    /\ call.method = "login"
    /\ inflight' = inflight \ {call}
    /\ LET ended == requestEnds(call, status)
       IN /\ settled' = ended
          /\ IF ended.outcome = "body" /\ ~isTokenExpired(access_token)
             THEN LET userData == userDataOf(call.email)
                  IN /\ SetAuth([user |-> userData, token |-> access_token,
                                 loading |-> FALSE])
                     /\ localStorage' = [padel_user |-> JSONstringify(userData),
                                         padel_token |-> access_token]
                     /\ timeouts' = setupTokenExpirationCheck(access_token)
             ELSE /\ SetAuth([AfterCallback(ended, auth) EXCEPT !.loading = FALSE])
                  /\ localStorage' = StorageAfterCallback(ended)
                  /\ UNCHANGED timeouts
    /\ UNCHANGED <<now, onTokenExpired, apc>>
    /\ UNCHANGED <<parseVars, resolveVars, screenVars, heatVars, uploadVars, reportVars, dashVars>>

\* signup() from the await on
SignupSettles(call, status) ==
    /\ call \in inflight
    /\ call.method = "register"
    /\ inflight' = inflight \ {call}
    /\ LET ended == requestEnds(call, status)
       IN /\ settled' = ended
          /\ SetAuth([AfterCallback(ended, auth) EXCEPT !.loading = FALSE])
          /\ localStorage' = StorageAfterCallback(ended)
    /\ UNCHANGED <<now, timeouts, onTokenExpired, apc>>
    /\ UNCHANGED <<parseVars, resolveVars, screenVars, heatVars, uploadVars, reportVars, dashVars>>

\* verifyOTP() from the await on
VerifyOTPSettles(call, status) ==
    /\ call \in inflight
    /\ call.method = "verifyOTP"
    /\ inflight' = inflight \ {call}
    /\ LET ended == requestEnds(call, status)
       IN /\ settled' = ended
          /\ IF ended.outcome = "body"
             THEN LET userData == userDataOf(call.email)
                  IN /\ SetAuth([auth EXCEPT !.user = userData, !.loading = FALSE])
                     /\ localStorage' = [localStorage EXCEPT
                                           !.padel_user = JSONstringify(userData)]
             ELSE /\ SetAuth([AfterCallback(ended, auth) EXCEPT !.loading = FALSE])
                  /\ localStorage' = StorageAfterCallback(ended)
    /\ UNCHANGED <<now, timeouts, onTokenExpired, apc>>
    /\ UNCHANGED <<parseVars, resolveVars, screenVars, heatVars, uploadVars, reportVars, dashVars>>

updateProfile(data) ==
    /\ apc = "ready"
    /\ auth.user # Null
    /\ auth' = [auth EXCEPT !.user = Spread(auth.user, data)]
    /\ localStorage' = [localStorage EXCEPT
                          !.padel_user = JSONstringify(Spread(auth.user, data))]
    /\ UNCHANGED <<now, timeouts, intervalAt, onTokenExpired, inflight, settled, apc>>
    /\ UNCHANGED <<parseVars, resolveVars, screenVars, heatVars, uploadVars, reportVars, dashVars>>

logout ==
    /\ apc = "ready"
    /\ SetAuth(handleLogout(auth))
    /\ localStorage' = RemovedItems
    /\ UNCHANGED <<now, timeouts, onTokenExpired, inflight, settled, apc>>
    /\ UNCHANGED <<parseVars, resolveVars, screenVars, heatVars, uploadVars, reportVars, dashVars>>

\* ProtectedRoute: the effect on a route change
RouteChange ==
    /\ apc = "ready"
    /\ auth.user # Null /\ auth.token # Null /\ isTokenExpired(auth.token)
    /\ SetAuth(handleLogout(auth))
    /\ localStorage' = RemovedItems
    /\ UNCHANGED <<now, timeouts, onTokenExpired, inflight, settled, apc>>
    /\ UNCHANGED <<parseVars, resolveVars, screenVars, heatVars, uploadVars, reportVars, dashVars>>

\* ProtectedRoute: the render redirects to /login
Redirects == auth.user = Null \/ (auth.token # Null /\ isTokenExpired(auth.token))

\* a screen calls an endpoint with Authorization: Bearer tokenValue
AuthorizedCalls(tokenValue) ==
    /\ apc = "ready"
    /\ Cardinality(inflight) < MaxInFlight
    /\ LET begun == requestBegins(NewCall("getMatchHistory", <<>>, Bearer(tokenValue)))
       IN IF begun.sent
          THEN /\ inflight' = inflight \cup {begun}
               /\ UNCHANGED <<auth, intervalAt, localStorage, settled>>
          ELSE /\ settled' = begun
               /\ SetAuth(AfterCallback(begun, auth))
               /\ localStorage' = StorageAfterCallback(begun)
               /\ UNCHANGED inflight
    /\ UNCHANGED <<now, timeouts, onTokenExpired, apc>>
    /\ UNCHANGED <<parseVars, resolveVars, screenVars, heatVars, uploadVars, reportVars, dashVars>>

AuthorizedSettles(call, status) ==
    /\ call \in inflight
    /\ call.method = "getMatchHistory"
    /\ inflight' = inflight \ {call}
    /\ LET ended == requestEnds(call, status)
       IN /\ settled' = ended
          /\ SetAuth(AfterCallback(ended, auth))
          /\ localStorage' = StorageAfterCallback(ended)
    /\ UNCHANGED <<now, timeouts, onTokenExpired, apc>>
    /\ UNCHANGED <<parseVars, resolveVars, screenVars, heatVars, uploadVars, reportVars, dashVars>>

SavedUsers ==
    {Null, NotJSON,
     JSONstringify([id |-> <<"7">>, email |-> <<"a", "m", "y", "@", "c">>,
                    name |-> <<"a", "m", "y">>, createdAt |-> [date |-> 7]])}

AuthInit ==
    /\ now = StartMs
    /\ auth = [user |-> Null, token |-> Null, loading |-> TRUE]
    /\ localStorage \in [padel_user : SavedUsers, padel_token : {Null, JWT(30), JWT(180)}]
    /\ timeouts = {}
    /\ intervalAt = StartMs + FiveMinutes
    /\ onTokenExpired = Null
    /\ inflight = {}
    /\ settled = Null
    /\ apc = "mount"
    /\ ParseIdle
    /\ ResolveIdle
    /\ ScreenIdle
    /\ HeatIdle
    /\ UploadIdle
    /\ ReportIdle
    /\ DashIdle

AuthNext ==
    \/ AuthMount
    \/ Tick
    \/ \E tm \in timeouts : TimeoutFires(tm)
    \/ PeriodicCheck
    \/ \E email \in Emails : LoginCalls(email)
    \/ \E email \in Emails : SignupCalls(email)
    \/ \E email \in Emails : VerifyOTPCalls(email)
    \/ \E call \in inflight, status \in Statuses, access_token \in Tokens \cup {Null} :
          LoginSettles(call, status, access_token)
    \/ \E call \in inflight, status \in Statuses : SignupSettles(call, status)
    \/ \E call \in inflight, status \in Statuses : VerifyOTPSettles(call, status)
    \/ \E data \in ProfileData : updateProfile(data)
    \/ logout
    \/ RouteChange
    \/ \E tokenValue \in Tokens : AuthorizedCalls(tokenValue)
    \/ \E call \in inflight, status \in Statuses : AuthorizedSettles(call, status)

SpecAuth == AuthInit /\ [][AuthNext]_vars

\* the session is gone: what handleLogout leaves behind
SessionCleared ==
    /\ auth.user = Null
    /\ auth.token = Null
    /\ localStorage = RemovedItems

\* C21: after a login or a session restore with a valid token, the timeout
\* that setupTokenExpirationCheck scheduled for that token logs the user out
\* when it runs: user and token null, both localStorage keys removed.
C21_TimeoutLogsOut ==
    [][ \A tm \in timeouts :
           (TimeoutFires(tm) /\ auth.token = tm.tokenValue) => SessionCleared'
      ]_vars

\* C22: a request whose Bearer token isTokenExpired reports expired invokes
\* the token-expired callback, throws 'Token expired' and sends nothing; a
\* request answered with 401 invokes the callback and throws, returning no
\* body.
C22_ExpiredOrUnauthorized ==
    [][ /\ \A tokenValue \in Tokens :
              (AuthorizedCalls(tokenValue) /\ isTokenExpired(tokenValue))
              => /\ inflight' = inflight
                 /\ settled'.header = Bearer(tokenValue)
                 /\ ~settled'.sent
                 /\ settled'.called
                 /\ settled'.outcome = "Token expired"
                 /\ SessionCleared'
        /\ \A call \in inflight :
              (call \notin inflight' /\ settled'.status = 401)
              => /\ settled'.called
                 /\ settled'.outcome = "Authentication failed"
                 /\ SessionCleared'
      ]_vars

\* a Bearer request with an expired token has just been refused
C22_Witness ==
    /\ settled # Null
    /\ settled.header # Null
    /\ isTokenExpired(settled.header.token)
    /\ ~settled.sent
    /\ settled.called
    /\ settled.outcome = "Token expired"
    /\ SessionCleared

\* C26: once the calls of login, signup, verifyOTP, updateProfile and logout
\* have settled, a non-null user implies a non-null token.
C26_UserImpliesToken ==
    (apc = "ready" /\ inflight = {} /\ auth.user # Null) => auth.token # Null

\* ---------------------------------------------------------------------
\* VideoUpload: keypoint selection and handleKeypointFinish
\* ---------------------------------------------------------------------

\* at most MaxUploads calls of handleKeypointFinish pass its guard
MaxUploads == 2

Files == {[name |-> "a.mp4"]}
Titles == {<<"F">>}
videoSize == [width |-> 640, height |-> 360]
VideoSizes == {[width |-> 1280, height |-> 720]}
Rects == {[left |-> 0, top |-> 0, width |-> 640, height |-> 360],
          [left |-> 20, top |-> 10, width |-> 320, height |-> 180]}
Clicks == {[clientX |-> 120, clientY |-> 60]}
UploadResponses == {[upload_url |-> "u1", video_id |-> [id |-> "v1"]]}
ProgressEvents == {50 * Scale}

\* const [..] = useState(..) of VideoUpload
InitialVideoUpload(t) ==
    [videoFile |-> Null, uploadProgress |-> 0, uploadStatus |-> "idle",
     keypoints |-> <<>>, videoId |-> Null, showKeypointSelection |-> FALSE,
     originalVideoSize |-> [width |-> 640, height |-> 360],
     matchTitle |-> <<>>, fileError |-> Null, token |-> t]

Mounted == location = "/upload"

\* a state update, dropped once the screen is unmounted
SetVu(v) == vu' = IF Mounted THEN v ELSE vu

\* which of the two returns of the render is shown
SelectionShown == Mounted /\ vu.showKeypointSelection /\ vu.videoFile # Null
DropzoneShown == Mounted /\ ~(vu.showKeypointSelection /\ vu.videoFile # Null)

\* the canvas coordinates of a click, in thousandths
canvasPoint(e, rect) ==
    [x |-> ((e.clientX - rect.left) * videoSize.width * Scale) \div rect.width,
     y |-> ((e.clientY - rect.top) * videoSize.height * Scale) \div rect.height]

\* handleCanvasClick refusing a click only beyond 12 keypoints
clickedBeyondTwelve(keypoints, e, rect) ==
    IF Len(keypoints) > 12 THEN keypoints ELSE Append(keypoints, canvasPoint(e, rect))

\* the keypoints after handleCanvasClick
clicked(keypoints, e, rect) ==
    IF Len(keypoints) >= 12 THEN keypoints ELSE Append(keypoints, canvasPoint(e, rect))

\* Math.round of a non-negative number of thousandths
MathRound(v) == (v + (Scale \div 2)) \div Scale

\* keypoints.map(kp => [Math.round(kp.x * scaleX), Math.round(kp.y * scaleY)])
keypointsArray(keypoints, originalVideoSize) ==
    [k \in 1..Len(keypoints) |->
        <<MathRound((keypoints[k].x * originalVideoSize.width) \div videoSize.width),
          MathRound((keypoints[k].y * originalVideoSize.height) \div videoSize.height)>>]

\* the catch block leaving the keypoint selection open
catchErrorKeepingSelection(v) == [v EXCEPT !.uploadStatus = "error"]

\* the catch block of handleKeypointFinish
catchError(v) == [v EXCEPT !.uploadStatus = "error", !.showKeypointSelection = FALSE]

onDrop(acceptedFiles) ==
    /\ DropzoneShown
    /\ IF Len(acceptedFiles) > 0
       THEN vu' = [vu EXCEPT !.videoFile = acceptedFiles[1], !.keypoints = <<>>,
                             !.showKeypointSelection = TRUE, !.uploadProgress = 0,
                             !.uploadStatus = "idle", !.videoId = Null,
                             !.fileError = Null]
       ELSE UNCHANGED vu
    /\ UNCHANGED <<canvasRect, uploads, location>>
    /\ UNCHANGED <<parseVars, resolveVars, screenVars, heatVars, authVars, reportVars, dashVars>>

\* video.onloadeddata
LoadedData(size) ==
    /\ SelectionShown
    /\ vu' = [vu EXCEPT !.originalVideoSize = size]
    /\ UNCHANGED <<canvasRect, uploads, location>>
    /\ UNCHANGED <<parseVars, resolveVars, screenVars, heatVars, authVars, reportVars, dashVars>>

setMatchTitle(value) ==
    /\ SelectionShown
    /\ vu' = [vu EXCEPT !.matchTitle = value]
    /\ UNCHANGED <<canvasRect, uploads, location>>
    /\ UNCHANGED <<parseVars, resolveVars, screenVars, heatVars, authVars, reportVars, dashVars>>

handleCanvasClick(e) ==
    /\ SelectionShown
    /\ vu' = [vu EXCEPT !.keypoints = clicked(vu.keypoints, e, canvasRect)]
    /\ UNCHANGED <<canvasRect, uploads, location>>
    /\ UNCHANGED <<parseVars, resolveVars, screenVars, heatVars, authVars, reportVars, dashVars>>

\* the Reset button is disabled without keypoints
handleKeypointReset ==
    /\ SelectionShown
    /\ Len(vu.keypoints) # 0
    /\ vu' = [vu EXCEPT !.keypoints = <<>>]
    /\ UNCHANGED <<canvasRect, uploads, location>>
    /\ UNCHANGED <<parseVars, resolveVars, screenVars, heatVars, authVars, reportVars, dashVars>>

\* the Finish button is disabled unless there are 12 keypoints and a title
\* and no upload is shown as running; the handler up to its first await
handleKeypointFinish ==
    /\ SelectionShown
    /\ Len(vu.keypoints) = 12
    /\ trim(vu.matchTitle) # <<>>
    /\ vu.uploadStatus # "uploading"
    /\ Len(uploads) < MaxUploads
    /\ IF vu.videoFile = Null \/ Len(vu.keypoints) # 12 \/ vu.token = Null
       THEN UNCHANGED <<vu, uploads>>
       ELSE /\ vu' = [vu EXCEPT !.uploadStatus = "uploading"]
            /\ uploads' = Append(uploads,
                  [pc |-> "getUploadUrl", videoFile |-> vu.videoFile,
                   keypoints |-> vu.keypoints, token |-> vu.token,
                   matchTitle |-> vu.matchTitle,
                   originalVideoSize |-> vu.originalVideoSize,
                   uploadResponse |-> Null, analyzeData |-> Null])
    /\ UNCHANGED <<canvasRect, location>>
    /\ UNCHANGED <<parseVars, resolveVars, screenVars, heatVars, authVars, reportVars, dashVars>>

\* await apiClient.getUploadUrl(token) resolves
GetUploadUrlResolves(r, uploadResponse) ==
    /\ uploads[r].pc = "getUploadUrl"
    /\ SetVu([vu EXCEPT !.videoId = uploadResponse.video_id])
    /\ uploads' = [uploads EXCEPT ![r].pc = "uploadVideo",
                                  ![r].uploadResponse = uploadResponse]
    /\ UNCHANGED <<canvasRect, location>>
    /\ UNCHANGED <<parseVars, resolveVars, screenVars, heatVars, authVars, reportVars, dashVars>>

\* the progress event of the upload
UploadProgress(r, progress) ==
    /\ uploads[r].pc = "uploadVideo"
    /\ Mounted
    /\ vu' = [vu EXCEPT !.uploadProgress = progress]
    /\ UNCHANGED <<canvasRect, uploads, location>>
    /\ UNCHANGED <<parseVars, resolveVars, screenVars, heatVars, authVars, reportVars, dashVars>>

\* await apiClient.uploadVideo(...) resolves: apiClient.analyze is called
UploadVideoResolves(r) ==
    /\ uploads[r].pc = "uploadVideo"
    /\ uploads' = [uploads EXCEPT
          ![r].pc = "analyze",
          ![r].analyzeData =
              [video_id |-> uploads[r].uploadResponse.video_id,
               title |-> uploads[r].matchTitle,
               keypoints |-> keypointsArray(uploads[r].keypoints,
                                            uploads[r].originalVideoSize),
               token |-> uploads[r].token]]
    /\ UNCHANGED <<vu, canvasRect, location>>
    /\ UNCHANGED <<parseVars, resolveVars, screenVars, heatVars, authVars, reportVars, dashVars>>

\* await apiClient.analyze(...) resolves: completed, navigate("/dashboard")
AnalyzeResolves(r) ==
    /\ uploads[r].pc = "analyze"
    /\ SetVu([vu EXCEPT !.uploadStatus = "completed"])
    /\ location' = "/dashboard"
    /\ uploads' = [uploads EXCEPT ![r].pc = "completed"]
    /\ UNCHANGED canvasRect
    /\ UNCHANGED <<parseVars, resolveVars, screenVars, heatVars, authVars, reportVars, dashVars>>

\* the awaited call of the run rejects: the catch block
StepRejects(r) ==
    /\ uploads[r].pc \in {"getUploadUrl", "uploadVideo", "analyze"}
    /\ SetVu(catchError(vu))
    /\ uploads' = [uploads EXCEPT ![r].pc = "failed"]
    /\ UNCHANGED <<canvasRect, location>>
    /\ UNCHANGED <<parseVars, resolveVars, screenVars, heatVars, authVars, reportVars, dashVars>>

\* the Cancel button of the selection, and the X next to the file name
cancelKeypointSelection ==
    /\ \/ SelectionShown
       \/ DropzoneShown /\ vu.videoFile # Null /\ vu.uploadStatus # "completed"
    /\ vu' = [vu EXCEPT !.showKeypointSelection = FALSE, !.keypoints = <<>>,
                        !.videoFile = Null, !.uploadProgress = 0,
                        !.uploadStatus = "idle", !.videoId = Null,
                        !.fileError = Null]
    /\ UNCHANGED <<canvasRect, uploads, location>>
    /\ UNCHANGED <<parseVars, resolveVars, screenVars, heatVars, authVars, reportVars, dashVars>>

backToVideoSelection ==
    /\ SelectionShown
    /\ vu' = [vu EXCEPT !.showKeypointSelection = FALSE, !.keypoints = <<>>,
                        !.fileError = Null]
    /\ UNCHANGED <<canvasRect, uploads, location>>
    /\ UNCHANGED <<parseVars, resolveVars, screenVars, heatVars, authVars, reportVars, dashVars>>

UploadInit ==
    /\ vu \in {InitialVideoUpload(t) : t \in {Null, [jwt |-> "token"]}}
    /\ canvasRect \in Rects
    /\ uploads = <<>>
    /\ location = "/upload"
    /\ ParseIdle
    /\ ResolveIdle
    /\ ScreenIdle
    /\ HeatIdle
    /\ AuthIdle
    /\ ReportIdle
    /\ DashIdle

UploadNext ==
    \/ \E acceptedFiles \in {<<>>} \cup {<<f>> : f \in Files} : onDrop(acceptedFiles)
    \/ \E size \in VideoSizes : LoadedData(size)
    \/ \E value \in Titles : setMatchTitle(value)
    \/ \E e \in Clicks : handleCanvasClick(e)
    \/ handleKeypointReset
    \/ handleKeypointFinish
    \/ \E r \in 1..Len(uploads), uploadResponse \in UploadResponses :
          GetUploadUrlResolves(r, uploadResponse)
    \/ \E r \in 1..Len(uploads), progress \in ProgressEvents : UploadProgress(r, progress)
    \/ \E r \in 1..Len(uploads) : UploadVideoResolves(r)
    \/ \E r \in 1..Len(uploads) : AnalyzeResolves(r)
    \/ \E r \in 1..Len(uploads) : StepRejects(r)
    \/ cancelKeypointSelection
    \/ backToVideoSelection

SpecUpload == UploadInit /\ [][UploadNext]_vars

\* the steps of one call of handleKeypointFinish, in their order
StepOrder == <<"getUploadUrl", "uploadVideo", "analyze", "completed">>
StepIndex(step) == CHOOSE k \in 1..Len(StepOrder) : StepOrder[k] = step

\* C23: the steps of handleKeypointFinish run in the order getUploadUrl,
\* uploadVideo, analyze, status 'completed', navigate; analyze is called only
\* after the upload resolved and only with exactly 12 keypoints, a video
\* file and a token; when a step fails the status becomes 'error', the
\* keypoint selection is closed, no later step of that call runs and nothing
\* navigates. The status and the selection are those of the mounted screen.
C23_UploadSequence ==
    [][ \A r \in 1..Len(uploads') :
           IF r > Len(uploads)
           THEN /\ uploads'[r].pc = "getUploadUrl"
                /\ uploads'[r].analyzeData = Null
           ELSE \/ uploads'[r] = uploads[r]
                \/ /\ uploads[r].pc \in {"getUploadUrl", "uploadVideo", "analyze"}
                   /\ uploads'[r].pc = "failed"
                   /\ uploads'[r].analyzeData = uploads[r].analyzeData
                   /\ location' = location
                   /\ Mounted => /\ vu'.uploadStatus = "error"
                                 /\ ~vu'.showKeypointSelection
                \/ /\ uploads[r].pc \in {"getUploadUrl", "uploadVideo", "analyze"}
                   /\ uploads'[r].pc \in {"uploadVideo", "analyze", "completed"}
                   /\ StepIndex(uploads'[r].pc) = StepIndex(uploads[r].pc) + 1
                   /\ (uploads'[r].analyzeData # Null) <=> (uploads[r].pc # "getUploadUrl")
                   /\ uploads'[r].pc = "analyze" =>
                         /\ Len(uploads'[r].analyzeData.keypoints) = 12
                         /\ uploads'[r].videoFile # Null
                         /\ uploads'[r].analyzeData.token # Null
                   /\ IF uploads'[r].pc = "completed"
                      THEN /\ location' = "/dashboard"
                           /\ Mounted => vu'.uploadStatus = "completed"
                      ELSE location' = location
      ]_vars

\* one call has gone through all its steps and another has failed
C23_Witness ==
    /\ \E r \in 1..Len(uploads) : uploads[r].pc = "completed"
    /\ \E r \in 1..Len(uploads) : uploads[r].pc = "failed" /\ uploads[r].analyzeData # Null
    /\ location = "/dashboard"

\* C25: the number of selected keypoints stays between 0 and 12; a click
\* with 12 keypoints selected changes nothing; an accepted file drop, back
\* and cancel each leave the keypoints empty.
C25_KeypointBounds ==
    [][ /\ Len(vu'.keypoints) \in 0..12
        /\ \A e \in Clicks :
              (handleCanvasClick(e) /\ Len(vu.keypoints) = 12) => vu'.keypoints = vu.keypoints
        /\ (\E f \in Files : onDrop(<<f>>)) => vu'.keypoints = <<>>
        /\ backToVideoSelection => vu'.keypoints = <<>>
        /\ cancelKeypointSelection => vu'.keypoints = <<>>
      ]_vars

\* twelve keypoints are selected
C25_Witness ==
    /\ SelectionShown
    /\ Len(vu.keypoints) = 12

\* ---------------------------------------------------------------------
\* MatchAnalytics: generatePDFReport and the tab buttons
\* ---------------------------------------------------------------------

\* document.querySelectorAll('.recharts-wrapper') finds at most MaxCharts
MaxCharts == 2

Tabs == {"overview", "players", "ball", "heatmap"}

isAnalysisNotAvailable ==
    IF match # Null
    THEN \/ match.status \in {"uploaded", "processing", "pending"}
         \/ match.analysis_data_url = ""
    ELSE FALSE

\* the section whose charts are captured after those of section
NextSection(section) == IF section = "overview" THEN "players" ELSE "ball"

\* catch, finally: the values of activeTab, isGeneratingPDF and report
Caught(rep, tab) ==
    [activeTab |-> tab, isGeneratingPDF |-> FALSE, report |-> [rep EXCEPT !.pc = "failed"]]

\* from the end of a section's capture loop to the next await or to the
\* end; throws: the code in between raises an exception (before the switch
\* to the next section, after the restore of the original tab)
AfterCharts(rep, tab, throws) ==
    IF rep.section = "ball"
    THEN IF throws
         THEN Caught(rep, rep.originalTab)
         ELSE [activeTab |-> rep.originalTab, isGeneratingPDF |-> FALSE,
               report |-> [rep EXCEPT !.pc = "saved"]]
    ELSE IF throws
         THEN Caught(rep, tab)
         ELSE [activeTab |-> NextSection(rep.section), isGeneratingPDF |-> TRUE,
               report |-> [rep EXCEPT !.pc = "wait", !.section = NextSection(rep.section),
                                      !.i = 0, !.n = 0]]

SetReport(next) ==
    /\ activeTab' = next.activeTab
    /\ isGeneratingPDF' = next.isGeneratingPDF
    /\ report' = next.report

\* the Generate Report button: up to the first await, or to the catch when
\* the pages written before it throw
generatePDFReport(throws) ==
    /\ ~isAnalysisNotAvailable
    /\ ~isGeneratingPDF
    /\ matchData # Null
    /\ LET rep == [pc |-> "wait", section |-> "overview", originalTab |-> activeTab,
                   i |-> 0, n |-> 0, images |-> 0]
       IN IF throws
          THEN SetReport(Caught(rep, activeTab))
          ELSE SetReport([activeTab |-> "overview", isGeneratingPDF |-> TRUE, report |-> rep])
    /\ UNCHANGED <<parseVars, resolveVars, screenVars, heatVars, authVars, uploadVars, dashVars>>

\* the two-second wait ends: n charts are found in the document
ChartsFound(n, throws) ==
    /\ report # Null
    /\ report.pc = "wait"
    /\ IF n > 0
       THEN /\ report' = [report EXCEPT !.pc = "capture", !.n = n]
            /\ UNCHANGED <<activeTab, isGeneratingPDF>>
       ELSE SetReport(AfterCharts(report, activeTab, throws))
    /\ UNCHANGED <<parseVars, resolveVars, screenVars, heatVars, authVars, uploadVars, dashVars>>

\* await captureElement(...) resolves, with an image or with null; then
\* addImageToPDF, the next iteration or the code after the loop
ChartCaptured(result, throwsAdding, throws) ==
    /\ report # Null
    /\ report.pc = "capture"
    /\ IF result # Null /\ throwsAdding
       THEN SetReport(Caught(report, activeTab))
       ELSE LET rep == [report EXCEPT !.i = report.i + 1,
                                      !.images = IF result # Null THEN report.images + 1
                                                 ELSE report.images]
            IN IF rep.i < rep.n
               THEN /\ report' = rep
                    /\ UNCHANGED <<activeTab, isGeneratingPDF>>
               ELSE SetReport(AfterCharts(rep, activeTab, throws))
    /\ UNCHANGED <<parseVars, resolveVars, screenVars, heatVars, authVars, uploadVars, dashVars>>

\* a tab button
TabClick(tab) ==
    /\ matchData # Null
    /\ ~isAnalysisNotAvailable
    /\ activeTab' = tab
    /\ UNCHANGED <<isGeneratingPDF, report>>
    /\ UNCHANGED <<parseVars, resolveVars, screenVars, heatVars, authVars, uploadVars, dashVars>>

ShownMatches ==
    {[id |-> "A", status |-> "finished", analysis_data_url |-> "a.csv"],
     [id |-> "A", status |-> "processing", analysis_data_url |-> ""]}

ReportInit ==
    /\ activeTab = "overview"
    /\ isGeneratingPDF = FALSE
    /\ report = Null
    /\ matchId = "A"
    /\ token = "token"
    /\ match \in ShownMatches
    /\ matchData = transformedMatchData(match, <<>>, EmptyBallData, [k \in 1..4 |-> 0])
    /\ loading = FALSE
    /\ error = ""
    /\ csvBallData = EmptyBallData
    /\ ballVelocityData = InitialBallVelocityData
    /\ runs = <<>>
    /\ server = <<>>
    /\ ParseIdle
    /\ ResolveIdle
    /\ HeatIdle
    /\ AuthIdle
    /\ UploadIdle
    /\ DashIdle

ReportNext ==
    \/ \E throws \in BOOLEAN : generatePDFReport(throws)
    \/ \E n \in 0..MaxCharts, throws \in BOOLEAN : ChartsFound(n, throws)
    \/ \E result \in {Null, [imgData |-> "png"]}, throwsAdding \in BOOLEAN, throws \in BOOLEAN :
          ChartCaptured(result, throwsAdding, throws)
    \/ \E tab \in Tabs : TabClick(tab)

SpecReport == ReportInit /\ [][ReportNext]_vars

\* C24: on every exit path of a report generation, success or exception,
\* activeTab afterwards is the tab that was active when the generation
\* started, and isGeneratingPDF is false.
C24_TabRestored ==
    [][ ( /\ report' # Null
          /\ report'.pc \in {"saved", "failed"}
          /\ report' # report )
        => /\ activeTab' = report'.originalTab
           /\ isGeneratingPDF' = FALSE
      ]_vars

\* the run r of the fetch effect ends in this step
RunEnds(r) ==
    /\ runs'[r].pc = "done"
    /\ r > Len(runs) \/ runs[r].pc # "done"

\* C27: every run of the fetch effect of a screen mounted with a matchId
\* ends with loading false: when getMatch resolves, when it rejects, and
\* when the effect returns early because the token is missing.
C27_RunsEndLoaded ==
    [][ \A r \in 1..Len(runs') : RunEnds(r) => loading' = FALSE ]_vars

\* csvPlayerData of the run r that ends in this step
CsvPlayerDataOf(r) ==
    IF runs[r].pc = "parseCSVData"
    THEN CsvData[runs[r].matchId][server[runs[r].matchId].csv].players
    ELSE <<>>

\* the four displayed fields are the parsed ones
FromCsv(player, csvData) ==
    /\ player.coveredDistance = csvData.totalDistance
    /\ player.avgVelocity = csvData.avgVelocity
    /\ player.maxVelocity = csvData.maxVelocity
    /\ player.totalHits = csvData.hitCount

\* the four displayed fields lie in the ranges of the mock fallback
FromMock(player) ==
    /\ player.coveredDistance >= 2500 * Scale /\ player.coveredDistance < 3500 * Scale
    /\ player.avgVelocity.den = 1
    /\ player.avgVelocity.num >= 10 * Scale /\ player.avgVelocity.num < 15 * Scale
    /\ player.maxVelocity >= 25 * Scale /\ player.maxVelocity < 35 * Scale
    /\ player.totalHits \in 120..199

GivesData(csvPlayerData, k) ==
    /\ k <= Len(csvPlayerData)
    /\ \/ csvPlayerData[k].totalDistance > 0
       \/ csvPlayerData[k].avgVelocity.num > 0

\* C29: for each player, coveredDistance, avgVelocity, maxVelocity and
\* totalHits of matchData are all the parsed CSV values when the parsed data
\* of that player has totalDistance > 0 or avgVelocity > 0, and all mock
\* values otherwise.
C29_NoMixedSources ==
    [][ \A r \in 1..Len(runs) :
           (RunEnds(r) /\ server[runs[r].matchId].getMatch = "resolves")
           => \A k \in 1..4 :
                 IF GivesData(CsvPlayerDataOf(r), k)
                 THEN FromCsv(matchData'.players[k], CsvPlayerDataOf(r)[k])
                 ELSE FromMock(matchData'.players[k])
      ]_vars

\* the match shown has a player with parsed data and another whose parsed
\* hit count is not shown for lack of distance and velocity data
C29_Witness ==
    /\ matchData # Null
    /\ \E m \in MatchIds :
          /\ matchData.id = m
          /\ server[m].getMatch = "resolves"
          /\ server[m].csv \in {"short", "long"}
          /\ LET csvPlayerData == CsvData[m][server[m].csv].players
             IN /\ \E k \in 1..4 : /\ GivesData(csvPlayerData, k)
                                   /\ FromCsv(matchData.players[k], csvPlayerData[k])
                /\ \E k \in 1..4 : /\ ~GivesData(csvPlayerData, k)
                                   /\ k <= Len(csvPlayerData)
                                   /\ csvPlayerData[k].hitCount > 0
                                   /\ FromMock(matchData.players[k])

\* ---------------------------------------------------------------------
\* Dashboard: fetchRecentMatches and fetchCSVForLatest
\* ---------------------------------------------------------------------

\* fetchRecentMatches calls getMatchHistory at most MaxHistoryCalls times
MaxHistoryCalls == 3

DashTokens == {"t1", "t2"}

Match1 == [id |-> "m1", status |-> "finished", analysis_data_url |-> "a.csv"]
Match2 == [id |-> "m2", status |-> "finished", analysis_data_url |-> "b.csv"]
Match3 == [id |-> "m3", status |-> "processing", analysis_data_url |-> ""]
Match4 == [id |-> "m4", status |-> "finished", analysis_data_url |-> ""]

\* response.matches of getMatchHistory, newest first
HistoryLists == {<<>>, <<Match1>>, <<Match2, Match1>>, <<Match3, Match1>>, <<Match4, Match1>>}

\* the CSV behind each URL: its header cells and its one data row
DashCsvHeaders == <<H_p1Vnorm, player_ball_hit>>
DashCsvRow(csvUrl) ==
    IF csvUrl = "a.csv" THEN << <<"3">>, <<"1">> >> ELSE << <<"4">>, <<"2">> >>

\* parseCSVData(csvUrl) of the Dashboard
DashCsvData(csvUrl) == DBResult(DBRow(DBLocals(DashCsvHeaders), 1, DashCsvRow(csvUrl)))

InitialChartData == [velocityOverTime |-> <<>>, playerHitsData |-> <<>>, playerNames |-> <<>>]

\* recentMatches.find(m => m.status === "finished"), Null for undefined
RECURSIVE findFinished(_)
findFinished(matches) ==
    IF matches = <<>> THEN Null
    ELSE IF Head(matches).status = "finished" THEN Head(matches)
    ELSE findFinished(Tail(matches))

latestProcessedMatchCsv(matches) == findFinished(matches)

\* [latestProcessedMatchCsv?.id, latestProcessedMatchCsv?.analysis_data_url];
\* each dependency is <<>> when undefined and <<value>> otherwise
CsvEffectDeps(latest) ==
    IF latest = Null THEN << <<>>, <<>> >> ELSE << <<latest.id>>, <<latest.analysis_data_url>> >>

\* fetchRecentMatches() up to its await; token "" is null
fetchRecentMatches(d) ==
    IF d.token = ""
    THEN /\ dash' = d
         /\ UNCHANGED historyCalls
    ELSE /\ dash' = [d EXCEPT !.loading = TRUE, !.error = ""]
         /\ historyCalls' = [awaited |-> historyCalls.awaited + 1,
                             made |-> historyCalls.made + 1]

\* fetchCSVForLatest() up to its await, for the state d of this render
fetchCSVForLatest(d) ==
    LET latest == latestProcessedMatchCsv(d.recentMatches)
        csvUrl == IF latest = Null THEN "" ELSE latest.analysis_data_url
    IN IF latest # Null /\ csvUrl # "" /\ [current |-> csvUrl] # lastFetchedCsvUrl
       THEN /\ dash' = [d EXCEPT !.csvLoading = TRUE]
            /\ csvFetches' = Append(csvFetches, csvUrl)
       ELSE /\ dash' = d
            /\ UNCHANGED csvFetches

\* the first render: both effects run
DashMount ==
    /\ dpc = "mount"
    /\ dpc' = "ready"
    /\ fetchRecentMatches(dash)
    /\ UNCHANGED <<lastFetchedCsvUrl, csvFetches>>
    /\ UNCHANGED <<parseVars, resolveVars, screenVars, heatVars, authVars, uploadVars, reportVars>>

\* useAuth() delivers another token
DashTokenChanges(t) ==
    /\ dpc = "ready"
    /\ t # dash.token
    /\ historyCalls.made < MaxHistoryCalls
    /\ fetchRecentMatches([dash EXCEPT !.token = t])
    /\ UNCHANGED <<lastFetchedCsvUrl, csvFetches, dpc>>
    /\ UNCHANGED <<parseVars, resolveVars, screenVars, heatVars, authVars, uploadVars, reportVars>>

\* await apiClient.getMatchHistory(...) resolves: setRecentMatches, finally;
\* the render that follows runs the CSV effect when its dependencies changed
HistoryResolves(matches) ==
    /\ historyCalls.awaited > 0
    /\ historyCalls' = [historyCalls EXCEPT !.awaited = historyCalls.awaited - 1]
    /\ LET d == [dash EXCEPT !.recentMatches = matches, !.loading = FALSE]
       IN IF CsvEffectDeps(latestProcessedMatchCsv(matches))
               # CsvEffectDeps(latestProcessedMatchCsv(dash.recentMatches))
          THEN fetchCSVForLatest(d)
          ELSE /\ dash' = d
               /\ UNCHANGED csvFetches
    /\ UNCHANGED <<lastFetchedCsvUrl, dpc>>
    /\ UNCHANGED <<parseVars, resolveVars, screenVars, heatVars, authVars, uploadVars, reportVars>>

\* await apiClient.getMatchHistory(...) rejects: catch, finally
HistoryRejects ==
    /\ historyCalls.awaited > 0
    /\ historyCalls' = [historyCalls EXCEPT !.awaited = historyCalls.awaited - 1]
    /\ dash' = [dash EXCEPT !.error = "Failed to load recent matches", !.loading = FALSE]
    /\ UNCHANGED <<lastFetchedCsvUrl, csvFetches, dpc>>
    /\ UNCHANGED <<parseVars, resolveVars, screenVars, heatVars, authVars, uploadVars, reportVars>>

\* await parseCSVData(csvUrl) resolves: the rest of fetchCSVForLatest
CsvResolves(f) ==
    /\ f \in 1..Len(csvFetches)
    /\ dash' = [dash EXCEPT !.chartData = DashCsvData(csvFetches[f]), !.csvLoading = FALSE]
    /\ lastFetchedCsvUrl' = [current |-> csvFetches[f]]
    /\ csvFetches' = [k \in 1..(Len(csvFetches) - 1) |->
                         IF k < f THEN csvFetches[k] ELSE csvFetches[k + 1]]
    /\ UNCHANGED <<historyCalls, dpc>>
    /\ UNCHANGED <<parseVars, resolveVars, screenVars, heatVars, authVars, uploadVars, reportVars>>

DashInit ==
    /\ dash \in {[token |-> t, recentMatches |-> <<>>, loading |-> TRUE, error |-> "",
                  chartData |-> InitialChartData, csvLoading |-> FALSE] :
                 t \in {""} \cup DashTokens}
    /\ lastFetchedCsvUrl = Null
    /\ historyCalls = [awaited |-> 0, made |-> 0]
    /\ csvFetches = <<>>
    /\ dpc = "mount"
    /\ ParseIdle
    /\ ResolveIdle
    /\ ScreenIdle
    /\ HeatIdle
    /\ AuthIdle
    /\ UploadIdle
    /\ ReportIdle

DashNext ==
    \/ DashMount
    \/ \E t \in DashTokens : DashTokenChanges(t)
    \/ \E matches \in HistoryLists : HistoryResolves(matches)
    \/ HistoryRejects
    \/ \E f \in 1..Len(csvFetches) : CsvResolves(f)

SpecDashboard == DashInit /\ [][DashNext]_vars

\* C28: once every fetch has settled, chartData is what parseCSVData gives
\* for the analysis_data_url of the current latest finished match and
\* lastFetchedCsvUrl is that URL, whatever the order in which overlapping
\* fetches resolved; csvLoading is false once no CSV fetch is awaited.
C28_LatestCsvShown ==
    /\ (dpc = "ready" /\ csvFetches = <<>>) => ~dash.csvLoading
    /\ (dpc = "ready" /\ csvFetches = <<>> /\ historyCalls.awaited = 0)
       => LET latest == latestProcessedMatchCsv(dash.recentMatches)
          IN (latest # Null /\ latest.analysis_data_url # "")
             => /\ dash.chartData = DashCsvData(latest.analysis_data_url)
                /\ lastFetchedCsvUrl = [current |-> latest.analysis_data_url]

====
